---- MODULE Spec2Model ----
(***************************************************************************)
(* TypeView: resolution of the request-body type of a Next.js route file.  *)
(*                                                                         *)
(* A source file is modelled by its syntax tree.  Statement nodes are      *)
(* records with a "kind" field; expressions and type nodes are records     *)
(* with a "k" field.  Source text is a sequence of tokens (strings), so    *)
(* that getText / getFullText / trim / endsWith are computed on text and   *)
(* not assumed.                                                            *)
(***************************************************************************)
EXTENDS Integers, Sequences, FiniteSets, TLC

(***************************************************************************)
(* Text                                                                    *)
(***************************************************************************)
WS == " "
DocComment == "/** doc */"
DQ == "\""
SQ == "'"

RECURSIVE Join(_)
Join(toks) == IF toks = <<>> THEN "" ELSE Head(toks) \o Join(Tail(toks))

\* String.prototype.endsWith on token text
EndsWith(text, suffix) ==
  /\ Len(text) >= Len(suffix)
  /\ SubSeq(text, Len(text) - Len(suffix) + 1, Len(text)) = suffix

\* text contains the token sequence part as a contiguous run
Includes(text, part) ==
  \E i \in 0 .. Len(text) - Len(part) : SubSeq(text, i + 1, i + Len(part)) = part

RECURSIVE TrimStart(_)
TrimStart(text) ==
  IF text # <<>> /\ Head(text) = WS THEN TrimStart(Tail(text)) ELSE text

RECURSIVE TrimEnd(_)
TrimEnd(text) ==
  IF text # <<>> /\ text[Len(text)] = WS
  THEN TrimEnd(SubSeq(text, 1, Len(text) - 1)) ELSE text

\* the text with every run of white space taken out
removeSpaces(text) == SelectSeq(text, LAMBDA t : t # WS)

\* String.prototype.trim
Trim(text) == TrimEnd(TrimStart(text))

(***************************************************************************)
(* Syntax tree constructors                                                *)
(***************************************************************************)
NoType == [k |-> "none"]
TypeRef(n) == [k |-> "ref", name |-> n, typeArgument |-> ""]
GenericTypeRef(n, a) == [k |-> "ref", name |-> n, typeArgument |-> a]
TypeLiteral == [k |-> "literal"]

NoExpr == [k |-> "none"]
Id(n) == [k |-> "id", name |-> n]
Prop(o, n) == [k |-> "prop", obj |-> o, name |-> n]
Call(c, a) == [k |-> "call", callee |-> c, args |-> a]
Await(e) == [k |-> "await", expr |-> e]
As(e, t) == [k |-> "as", expr |-> e, type |-> t]
Paren(e) == [k |-> "paren", expr |-> e]
Arrow(b) == [k |-> "arrow", body |-> b]

Decl(n, t, i) == [name |-> n, type |-> t, init |-> i]

ImportNode(hasClause, dflt, bindings, elements, quote, path) ==
  [kind |-> "import", doc |-> FALSE, exported |-> FALSE,
   hasClause |-> hasClause, default |-> dflt, bindings |-> bindings,
   elements |-> elements, quote |-> quote, path |-> path]
Element(propertyName, n) == [propertyName |-> propertyName, name |-> n]
InterfaceNode(n, doc, exported) ==
  [kind |-> "interface", name |-> n, doc |-> doc, exported |-> exported]
TypeAliasNode(n, doc, exported) ==
  [kind |-> "typealias", name |-> n, doc |-> doc, exported |-> exported]
VarNode(decls, doc, exported) ==
  [kind |-> "var", decls |-> decls, doc |-> doc, exported |-> exported]
FunctionNode(n, hasBody, body) ==
  [kind |-> "function", name |-> n, doc |-> FALSE, exported |-> TRUE,
   hasBody |-> hasBody, body |-> body]
ModuleNode(n, body) ==
  [kind |-> "module", name |-> n, doc |-> FALSE, exported |-> FALSE,
   body |-> body]
SourceFile(stmts) ==
  [kind |-> "file", doc |-> FALSE, exported |-> FALSE, statements |-> stmts]

(***************************************************************************)
(* Node.getText / Node.getFullText                                         *)
(***************************************************************************)
TypeText(t) ==
  IF t.k = "ref"
    THEN IF t.typeArgument = "" THEN <<t.name>>
         ELSE <<t.name, "<", t.typeArgument, ">">>
  ELSE IF t.k = "literal" THEN <<"{", "x", ":", "string", "}">>
  ELSE <<>>

RECURSIVE ExprText(_)
RECURSIVE ExprTexts(_)
RECURSIVE NodeText(_)
RECURSIVE NodeFullText(_)
RECURSIVE NodeFullTexts(_)
RECURSIVE DeclTexts(_)

ExprText(e) ==
  IF e.k = "id" THEN <<e.name>>
  ELSE IF e.k = "prop" THEN ExprText(e.obj) \o <<".", e.name>>
  ELSE IF e.k = "call" THEN ExprText(e.callee) \o <<"(">> \o ExprTexts(e.args) \o <<")">>
  ELSE IF e.k = "await" THEN <<"await", WS>> \o ExprText(e.expr)
  ELSE IF e.k = "as" THEN ExprText(e.expr) \o <<WS, "as", WS>> \o TypeText(e.type)
  ELSE IF e.k = "paren" THEN <<"(">> \o ExprText(e.expr) \o <<")">>
  ELSE IF e.k = "arrow" THEN <<"(", ")", "=>", "{">> \o NodeFullTexts(e.body) \o <<"}">>
  ELSE <<>>

ExprTexts(es) ==
  IF es = <<>> THEN <<>>
  ELSE IF Len(es) = 1 THEN ExprText(es[1])
  ELSE ExprText(es[1]) \o <<",">> \o ExprTexts(Tail(es))

DeclText(d) ==
  <<d.name>>
  \o (IF d.type.k = "none" THEN <<>> ELSE <<":">> \o TypeText(d.type))
  \o (IF d.init.k = "none" THEN <<>> ELSE <<"=">> \o ExprText(d.init))

DeclTexts(ds) ==
  IF ds = <<>> THEN <<>>
  ELSE IF Len(ds) = 1 THEN DeclText(ds[1])
  ELSE DeclText(ds[1]) \o <<",">> \o DeclTexts(Tail(ds))

Modifiers(n) == IF n.exported THEN <<"export", WS>> ELSE <<>>

\* the module specifier's text: the string literal with its quotes
ModuleSpecifierText(n) == <<n.quote, n.path, n.quote>>

RECURSIVE ElementTexts(_)
ElementTexts(els) ==
  IF els = <<>> THEN <<>>
  ELSE (IF Head(els).propertyName = "" THEN <<Head(els).name>>
        ELSE <<Head(els).propertyName, WS, "as", WS, Head(els).name>>)
       \o (IF Len(els) = 1 THEN <<>> ELSE <<",">>) \o ElementTexts(Tail(els))

ImportClauseText(n) ==
  IF ~n.hasClause THEN <<>>
  ELSE (IF n.default = "" THEN <<>> ELSE <<n.default>>)
       \o (IF n.default # "" /\ n.bindings # "none" THEN <<",">> ELSE <<>>)
       \o (IF n.bindings = "named" THEN <<"{">> \o ElementTexts(n.elements) \o <<"}">>
           ELSE IF n.bindings = "namespace" THEN <<"*", WS, "as", WS, "NS">>
           ELSE <<>>)
       \o <<WS, "from", WS>>

\* Node.getText(sourceFile): the node's text without its leading trivia
NodeText(n) ==
  IF n.kind = "import"
    THEN <<"import", WS>> \o ImportClauseText(n) \o ModuleSpecifierText(n) \o <<";">>
  ELSE IF n.kind = "interface"
    THEN Modifiers(n) \o <<"interface", WS, n.name, "{", "x", ":", "string", "}">>
  ELSE IF n.kind = "typealias"
    THEN Modifiers(n) \o <<"type", WS, n.name, "=", "{", "x", ":", "string", "}", ";">>
  ELSE IF n.kind = "var"
    THEN Modifiers(n) \o <<"const", WS>> \o DeclTexts(n.decls) \o <<";">>
  ELSE IF n.kind = "function"
    THEN Modifiers(n) \o <<"async", WS, "function", WS, n.name, "(", ")">>
         \o (IF n.hasBody THEN <<"{">> \o NodeFullTexts(n.body) \o <<"}">> ELSE <<";">>)
  ELSE IF n.kind = "module"
    THEN <<"namespace", WS, n.name, "{">> \o NodeFullTexts(n.body) \o <<"}">>
  ELSE IF n.kind = "file" THEN NodeFullTexts(n.statements)
  ELSE <<>>

\* the trivia before a node: white space and, when present, its doc comment
LeadingTrivia(n) == IF n.doc THEN <<WS, DocComment, WS>> ELSE <<WS>>

\* Node.getFullText(sourceFile): the node's text with its leading trivia
NodeFullText(n) == LeadingTrivia(n) \o NodeText(n)

NodeFullTexts(ns) ==
  IF ns = <<>> THEN <<>> ELSE NodeFullText(Head(ns)) \o NodeFullTexts(Tail(ns))

(***************************************************************************)
(* ts.forEachChild, restricted to what the visitors look at: the nearest   *)
(* statement nodes below a node, in document order.                        *)
(***************************************************************************)
RECURSIVE ExprStatements(_)
RECURSIVE ExprsStatements(_)
ExprStatements(e) ==
  IF e.k = "arrow" THEN e.body
  ELSE IF e.k \in {"await", "as", "paren"} THEN ExprStatements(e.expr)
  ELSE IF e.k = "prop" THEN ExprStatements(e.obj)
  ELSE IF e.k = "call" THEN ExprStatements(e.callee) \o ExprsStatements(e.args)
  ELSE <<>>
ExprsStatements(es) ==
  IF es = <<>> THEN <<>> ELSE ExprStatements(Head(es)) \o ExprsStatements(Tail(es))

RECURSIVE DeclsStatements(_)
DeclsStatements(ds) ==
  IF ds = <<>> THEN <<>>
  ELSE ExprStatements(Head(ds).init) \o DeclsStatements(Tail(ds))

\* a walk that goes below the source file only
ChildrenOfFile(n) == IF n.kind = "file" THEN n.statements ELSE <<>>

\* ts.forEachChild(node, visit): the nodes below n the walks go to
Children(n) ==
  IF n.kind = "file" THEN n.statements
  ELSE IF n.kind = "function" THEN (IF n.hasBody THEN n.body ELSE <<>>)
  ELSE IF n.kind = "module" THEN n.body
  ELSE IF n.kind = "var" THEN DeclsStatements(n.decls)
  ELSE <<>>

(***************************************************************************)
(* Import index: collectImportStatements                                   *)
(***************************************************************************)
EmptyMap == <<>>
MapHas(m, key) == key \in DOMAIN m
\* a map that holds the one entry set last
MapSetAlone(m, key, val) == [x \in {key} |-> val]

MapSet(m, key, val) ==
  [x \in (DOMAIN m) \cup {key} |-> IF x = key THEN val ELSE m[x]]

\* moduleSpecifier.getText(sourceFile).replace(/['"]/g, "")
ImportPathOf(n) ==
  Join(SelectSeq(ModuleSpecifierText(n), LAMBDA c : c \notin {DQ, SQ}))

\* the loop over the elements with the exported name as the key
RECURSIVE SetElementsByPropertyName(_, _, _)
SetElementsByPropertyName(m, els, path) ==
  IF els = <<>> THEN m
  ELSE SetElementsByPropertyName(
         MapSet(m, IF Head(els).propertyName # "" THEN Head(els).propertyName
                   ELSE Head(els).name, path),
         Tail(els), path)

\* for (const element of namedBindings.elements) importMap.set(element.name.text, importPath)
RECURSIVE SetElements(_, _, _)
SetElements(m, els, path) ==
  IF els = <<>> THEN m
  ELSE SetElements(MapSet(m, Head(els).name, path), Tail(els), path)

NoClauseMessage(path) ==
  <<"Import statement without import clause found: ", DQ, path, DQ, ". ",
    "Please separate types into dedicated files with proper named imports.">>
UnsupportedClauseMessage(path) ==
  <<"Import statement with unsupported import clause found: ", DQ, path, DQ, ". ",
    "Please use named imports or default imports.">>

Returned(m) == [map |-> m, threw |-> FALSE, message |-> <<>>]
Thrown(m, msg) == [map |-> m, threw |-> TRUE, message |-> msg]

\* collectImportStatements without its two throws: an import with no clause
\* is skipped and a namespace import binds the namespace name
collectImportStatementsLenient(node, importMap) ==
  IF node.kind # "import" \/ ~node.hasClause THEN Returned(importMap)
  ELSE LET importPath == ImportPathOf(node) IN
    IF node.bindings = "named"
      THEN Returned(SetElements(importMap, node.elements, importPath))
    ELSE IF node.default # ""
      THEN Returned(MapSet(importMap, node.default, importPath))
    ELSE Returned(MapSet(importMap, "NS", importPath))

\* collectImportStatements(node, sourceFile, importMap): the map after the
\* call, and whether the call threw (with the error's message)
collectImportStatements(node, importMap) ==
  IF node.kind # "import" THEN Returned(importMap)
  ELSE LET importPath == ImportPathOf(node) IN
    IF ~node.hasClause THEN Thrown(importMap, NoClauseMessage(importPath))
    ELSE IF node.bindings = "named"
      THEN Returned(SetElements(importMap, node.elements, importPath))
    ELSE IF node.default # ""
      THEN Returned(MapSet(importMap, node.default, importPath))
    ELSE Thrown(importMap, UnsupportedClauseMessage(importPath))

\* findBodyType's visit: collectImportStatements on the node, then on every
\* node below it; an error is rethrown with the file named and ends the walk
RECURSIVE visit(_, _)
RECURSIVE visitEach(_, _)
visit(node, acc) ==
  IF acc.threw THEN acc
  ELSE LET r == collectImportStatements(node, acc.map) IN
    IF r.threw THEN Thrown(r.map, <<"In file ", "route.ts", ": ">> \o r.message)
    ELSE visitEach(Children(node), r)
visitEach(nodes, acc) ==
  IF nodes = <<>> THEN acc ELSE visitEach(Tail(nodes), visit(Head(nodes), acc))

(***************************************************************************)
(* Body-pattern matchers                                                   *)
(***************************************************************************)
JsonCallSuffix == <<".", "json", "(", ")">>

\* an await of a .json() call with nothing around it
isBareAwaitJsonExpression(e) ==
  e.k = "await" /\ EndsWith(ExprText(e.expr), JsonCallSuffix)

\* TypeAssertionMatcher.isAwaitReqJsonExpression
RECURSIVE isAwaitReqJsonExpression(_)
isAwaitReqJsonExpression(e) ==
  IF e.k = "paren" THEN isAwaitReqJsonExpression(e.expr)
  ELSE IF e.k = "await" THEN EndsWith(ExprText(e.expr), JsonCallSuffix)
  ELSE FALSE

\* matchers of which the await matcher looks through a type assertion
matchesThroughAssertion(matcher, declaration) ==
  IF matcher = "await-req-json"
    THEN \/ /\ declaration.init.k = "await"
            /\ EndsWith(ExprText(declaration.init.expr), JsonCallSuffix)
         \/ /\ declaration.init.k = "as"
            /\ isAwaitReqJsonExpression(declaration.init.expr)
  ELSE IF matcher = "type-assertion"
    THEN /\ declaration.init.k = "as"
         /\ isAwaitReqJsonExpression(declaration.init.expr)
  ELSE IF matcher = "zod-parse"
    THEN /\ declaration.init.k = "call"
         /\ declaration.init.callee.k = "prop"
         /\ declaration.init.callee.name = "parse"
  ELSE FALSE

\* BodyPatternMatcher.matches, by matcher name; ZodParseMatcher is the one
\* that looks for a call of a property named parse
matches(matcher, declaration) ==
  IF matcher = "await-req-json"
    THEN /\ declaration.init.k = "await"
         /\ EndsWith(ExprText(declaration.init.expr), JsonCallSuffix)
  ELSE IF matcher = "type-assertion"
    THEN /\ declaration.init.k = "as"
         /\ isAwaitReqJsonExpression(declaration.init.expr)
  ELSE IF matcher = "zod-parse"
    THEN /\ declaration.init.k = "call"
         /\ declaration.init.callee.k = "prop"
         /\ declaration.init.callee.name = "parse"
  ELSE FALSE

\* BodyPatternMatcher.extractTypeName, by matcher name; "" is undefined
extractTypeName(matcher, declaration) ==
  IF matcher = "await-req-json"
    THEN IF declaration.type.k = "ref" THEN declaration.type.name ELSE ""
  ELSE IF matcher = "type-assertion"
    THEN IF declaration.init.k = "as" /\ declaration.init.type.k = "ref"
         THEN declaration.init.type.name ELSE ""
  ELSE IF matcher = "zod-parse"
    THEN IF declaration.init.k = "call" /\ declaration.init.callee.k = "prop"
         THEN Join(ExprText(declaration.init.callee.obj)) ELSE ""
  ELSE ""

\* the matcher list findBodyType builds
patternMatchers == <<"await-req-json", "type-assertion", "zod-parse">>

(***************************************************************************)
(* Function locator and body scan                                          *)
(***************************************************************************)
NoNode == [kind |-> "none"]

\* findFunction's visit: foundFunction after visiting node, given its value before
RECURSIVE findFunctionVisit(_, _, _)
RECURSIVE findFunctionVisitEach(_, _, _)
\* findFunction's visit without the comparison of the function's name
findFunctionVisitAnyName(node, functionName, foundFunction) ==
  IF node.kind = "function" THEN node
  ELSE findFunctionVisitEach(Children(node), functionName, foundFunction)

findFunctionVisit(node, functionName, foundFunction) ==
  IF node.kind = "function" /\ node.name = functionName THEN node
  ELSE findFunctionVisitEach(Children(node), functionName, foundFunction)
findFunctionVisitEach(nodes, functionName, foundFunction) ==
  IF nodes = <<>> THEN foundFunction
  ELSE findFunctionVisitEach(Tail(nodes), functionName,
         findFunctionVisit(Head(nodes), functionName, foundFunction))

findFunction(sourceFile, functionName) ==
  findFunctionVisit(sourceFile, functionName, NoNode)

\* a call of a matcher's method during a scan, and what it returned
Called(method, matcher, declaration, matched, typeName) ==
  [method |-> method, matcher |-> matcher, declaration |-> declaration,
   matched |-> matched, typeName |-> typeName]

\* the locals of a scan that has not begun: bodyTypeName is undefined, no
\* matcher has been called
NoScan == [name |-> "", returned |-> FALSE, calls |-> <<>>]

RECURSIVE tryMatchers(_, _, _)
RECURSIVE afterExtractTypeName(_, _, _, _)

\* a matcher loop that asks every matcher for the type name straight away
tryMatchersUnasked(matchers, declaration, acc) ==
  IF matchers = <<>> THEN [acc EXCEPT !.returned = FALSE]
  ELSE afterExtractTypeName(matchers, declaration, acc,
                            extractTypeName(Head(matchers), declaration))

\* the matcher loop on one declaration: bodyTypeName after the loop, whether
\* the loop ended by the return, and the calls made so far
tryMatchers(matchers, declaration, acc) ==
  IF matchers = <<>> THEN [acc EXCEPT !.returned = FALSE]
  ELSE IF matches(Head(matchers), declaration)
    THEN afterExtractTypeName(
           matchers, declaration,
           [acc EXCEPT !.calls = Append(@, Called("matches", Head(matchers),
                                                  declaration, TRUE, ""))],
           extractTypeName(Head(matchers), declaration))
  ELSE tryMatchers(Tail(matchers), declaration,
         [acc EXCEPT !.calls = Append(@, Called("matches", Head(matchers),
                                                declaration, FALSE, ""))])

\* bodyTypeName = matcher.extractTypeName(declaration, sourceFile);
\* if (bodyTypeName) return
afterExtractTypeName(matchers, declaration, acc, n) ==
  IF n # ""
    THEN [name |-> n, returned |-> TRUE,
          calls |-> Append(acc.calls, Called("extractTypeName", Head(matchers),
                                             declaration, TRUE, n))]
  ELSE tryMatchers(Tail(matchers), declaration,
         [acc EXCEPT !.name = n,
                     !.calls = Append(@, Called("extractTypeName", Head(matchers),
                                                declaration, TRUE, n))])

\* searchFunctionBodyType's visitFunctionBody: the scan's locals after
\* visiting node
RECURSIVE visitFunctionBody(_, _, _)
RECURSIVE visitFunctionBodyEach(_, _, _)
\* a visit that examines the last declarator of a variable statement
visitFunctionBodyLastDeclarator(node, matchers, acc) ==
  IF node.kind = "var"
    THEN LET r == tryMatchers(matchers, node.decls[Len(node.decls)], acc) IN
      IF r.returned THEN r
      ELSE visitFunctionBodyEach(Children(node), matchers, r)
  ELSE visitFunctionBodyEach(Children(node), matchers, acc)
visitFunctionBody(node, matchers, acc) ==
  IF node.kind = "var"
    THEN LET r == tryMatchers(matchers, node.decls[1], acc) IN
      IF r.returned THEN r
      ELSE visitFunctionBodyEach(Children(node), matchers, r)
  ELSE visitFunctionBodyEach(Children(node), matchers, acc)
visitFunctionBodyEach(nodes, matchers, acc) ==
  IF nodes = <<>> THEN acc
  ELSE visitFunctionBodyEach(Tail(nodes), matchers,
         visitFunctionBody(Head(nodes), matchers, acc))

\* searchFunctionBodyType with the calls it made
scanFunctionBody(functionNode, matchers) ==
  IF ~functionNode.hasBody THEN NoScan
  ELSE visitFunctionBodyEach(functionNode.body, matchers, NoScan)

searchFunctionBodyType(functionNode, matchers) ==
  scanFunctionBody(functionNode, matchers).name

(***************************************************************************)
(* Local definition search                                                 *)
(***************************************************************************)
\* an interface extractor that knows interface declarations only
canHandleInterfaceOnly(extractor, node, typeName) ==
  IF extractor = "InterfaceTypeExtractor"
    THEN node.kind = "interface" /\ node.name = typeName
  ELSE IF extractor = "VariableDeclarationExtractor"
    THEN node.kind = "var" /\ node.decls[1].name = typeName
  ELSE FALSE

\* TypeDefinitionExtractor.canHandle, by extractor name
canHandle(extractor, node, typeName) ==
  IF extractor = "InterfaceTypeExtractor"
    THEN node.kind \in {"interface", "typealias"} /\ node.name = typeName
  ELSE IF extractor = "VariableDeclarationExtractor"
    THEN node.kind = "var" /\ node.decls[1].name = typeName
  ELSE FALSE

\* both extractors using getText
extractText(extractor, node) == NodeText(node)

\* TypeDefinitionExtractor.extract, by extractor name
extract(extractor, node) ==
  IF extractor = "InterfaceTypeExtractor" THEN Trim(NodeFullText(node))
  ELSE NodeText(node)

extractors == <<"InterfaceTypeExtractor", "VariableDeclarationExtractor">>

\* the definition the first extractor that can handle the node extracts;
\* <<>> when none can
RECURSIVE tryExtractors(_, _, _)
tryExtractors(exs, node, typeName) ==
  IF exs = <<>> THEN <<>>
  ELSE IF canHandle(Head(exs), node, typeName) THEN extract(Head(exs), node)
  ELSE tryExtractors(Tail(exs), node, typeName)

\* findLocalTypeDefinition's visit: definition after visiting node
RECURSIVE findLocalVisit(_, _, _)
RECURSIVE findLocalVisitEach(_, _, _)
findLocalVisit(node, typeName, definition) ==
  IF definition # <<>> THEN definition
  ELSE LET d == tryExtractors(extractors, node, typeName) IN
    IF \E i \in 1 .. Len(extractors) : canHandle(extractors[i], node, typeName)
    THEN d
    ELSE findLocalVisitEach(Children(node), typeName, definition)
findLocalVisitEach(nodes, typeName, definition) ==
  IF nodes = <<>> THEN definition
  ELSE findLocalVisitEach(Tail(nodes), typeName,
         findLocalVisit(Head(nodes), typeName, definition))

findLocalTypeDefinition(sourceFile, typeName) ==
  findLocalVisit(sourceFile, typeName, <<>>)

\* findLocalTypeAlias / findLocalInterface: the same walk for one node kind
RECURSIVE findKindVisit(_, _, _, _)
RECURSIVE findKindVisitEach(_, _, _, _)
findKindVisit(node, kind, typeName, definition) ==
  IF definition # <<>> THEN definition
  ELSE IF node.kind = kind /\ node.name = typeName THEN Trim(NodeFullText(node))
  ELSE findKindVisitEach(Children(node), kind, typeName, definition)
findKindVisitEach(nodes, kind, typeName, definition) ==
  IF nodes = <<>> THEN definition
  ELSE findKindVisitEach(Tail(nodes), kind, typeName,
         findKindVisit(Head(nodes), kind, typeName, definition))

findLocalTypeAlias(sourceFile, typeName) ==
  findKindVisit(sourceFile, "typealias", typeName, <<>>)
findLocalInterface(sourceFile, typeName) ==
  findKindVisit(sourceFile, "interface", typeName, <<>>)

findAnyLocalTypeDefinition(sourceFile, typeName) ==
  LET d1 == findLocalTypeDefinition(sourceFile, typeName) IN
  IF d1 # <<>> THEN d1
  ELSE LET d2 == findLocalTypeAlias(sourceFile, typeName) IN
    IF d2 # <<>> THEN d2
    ELSE findLocalInterface(sourceFile, typeName)

(***************************************************************************)
(* Inputs                                                                  *)
(***************************************************************************)
MaxStatements == 3

RECURSIVE SeqsUpTo(_, _)
\* the sequences over S of length at most n
SeqsUpTo(S, n) ==
  IF n = 0 THEN {<<>>}
  ELSE LET shorter == SeqsUpTo(S, n - 1) IN
    shorter \cup {Append(q, x) : q \in shorter, x \in S}

JsonAwait == Await(Call(Prop(Id("req"), "json"), <<>>))
TextAwait == Await(Call(Prop(Id("req"), "text"), <<>>))
ZObject == Call(Prop(Id("z"), "object"), <<>>)
Statement(d) == VarNode(<<d>>, FALSE, FALSE)

\* the import declarations of the route files
ImportNodes ==
  { ImportNode(TRUE, "", "named", <<Element("", "T")>>, DQ, "m1"),
    ImportNode(TRUE, "T", "none", <<>>, SQ, "m2"),
    ImportNode(TRUE, "T", "named", <<Element("", "U")>>, DQ, "m1"),
    ImportNode(FALSE, "", "none", <<>>, DQ, "m1"),
    ImportNode(TRUE, "", "namespace", <<>>, DQ, "m2"),
    ImportNode(TRUE, "U", "namespace", <<>>, DQ, "m2") }

\* the local declarations of the route files
DefinitionNodes ==
  { InterfaceNode("T", TRUE, TRUE),
    TypeAliasNode("T", FALSE, FALSE),
    VarNode(<<Decl("T", NoType, ZObject)>>, TRUE, TRUE),
    InterfaceNode("U", FALSE, FALSE) }

\* the function declarations of the route files
FunctionNodes ==
  { FunctionNode("POST", TRUE, <<Statement(Decl("body", TypeRef("T"), JsonAwait))>>),
    FunctionNode("POST", TRUE,
      <<Statement(Decl("body", NoType, As(Paren(JsonAwait), TypeRef("U"))))>>),
    FunctionNode("POST", TRUE,
      <<Statement(Decl("body", NoType, Call(Prop(Id("T"), "parse"), <<JsonAwait>>)))>>),
    FunctionNode("POST", TRUE, <<Statement(Decl("body", NoType, TextAwait))>>),
    FunctionNode("GET", TRUE, <<Statement(Decl("body", TypeRef("T"), JsonAwait))>>),
    FunctionNode("POST", FALSE, <<>>) }

RouteFiles ==
  { SourceFile(q) :
      q \in SeqsUpTo(ImportNodes \cup DefinitionNodes \cup FunctionNodes, MaxStatements) }

(***************************************************************************)
(* findBodyType                                                            *)
(***************************************************************************)
VARIABLES
  file,          \* the parsed route file of the running call
  pc,            \* the stage the running call has reached
  importMap,     \* findBodyType's importMap
  functionNode,  \* the function findFunction returned (NoNode: undefined)
  bodyTypeName,  \* findBodyType's bodyTypeName ("": undefined)
  result,        \* what the call returns
  error,         \* the message of the error the call caught (<<>>: none)
  escaped,       \* an exception left findBodyType
  pool,          \* the route files of the workspace
  history,       \* the finished calls: <<file, result>>
  call,          \* the argument of the last direct call of a helper
  ret,           \* what that call returned
  log,           \* the lines written to the console and the output channel
  provider,      \* the hover provider: its matchers, resolver and generator
  requests       \* the provideHover calls in flight, each with its locals

vars == <<file, pc, importMap, functionNode, bodyTypeName, result, error,
          escaped, pool, history, call, ret, log, provider, requests>>

Absent == [kind |-> "undefined"]
Imported(n, path) == [typeName |-> n, importPath |-> path]
LocalDefinition(n, text) == [typeName |-> n, localDefinition |-> text]

NoCall == [op |-> "none"]
NoProvider == [patternMatchers |-> <<>>]


\* an import map kept across calls
keptImportMap(previous) == previous

\* const importMap = new Map(): the new call's map, whatever the last call's was
newImportMap(previous) == EmptyMap

\* a catch block that rethrows
onCatchRethrow(message) == [result |-> Absent, escaped |-> TRUE, lines |-> <<>>]

\* catch (error) { return undefined; }
onCatch(message) == [result |-> Absent, escaped |-> FALSE, lines |-> <<>>]

Init ==
  /\ file \in RouteFiles
  /\ pc = "Start"
  /\ importMap = EmptyMap
  /\ functionNode = NoNode
  /\ bodyTypeName = ""
  /\ result = Absent
  /\ error = <<>>
  /\ escaped = FALSE
  /\ pool = {file}
  /\ history = <<>>
  /\ call = NoCall
  /\ ret = NoCall
  /\ log = <<>>
  /\ provider = NoProvider
  /\ requests = <<>>

\* visit(sourceFile): Start -> ImportsIndexed, or the catch block
IndexImports ==
  /\ pc = "Start"
  /\ LET r == visit(file, Returned(importMap)) IN
       /\ importMap' = r.map
       /\ error' = r.message
       /\ IF r.threw
          THEN /\ pc' = "NotFound"
               /\ result' = onCatch(r.message).result
               /\ escaped' = onCatch(r.message).escaped
               /\ log' = log \o onCatch(r.message).lines
          ELSE /\ pc' = "ImportsIndexed"
               /\ UNCHANGED <<result, escaped, log>>
  /\ UNCHANGED <<file, functionNode, bodyTypeName, pool, history, call, ret,
                 provider, requests>>

\* findFunctionBodyType, first half: findFunction(sourceFile, "POST")
LocateFunction ==
  /\ pc = "ImportsIndexed"
  /\ functionNode' = findFunction(file, "POST")
  /\ pc' = IF functionNode' = NoNode THEN "NotFound" ELSE "FunctionLocated"
  /\ UNCHANGED <<file, importMap, bodyTypeName, result, error, escaped, pool,
                 history, call, ret, log, provider, requests>>

\* findFunctionBodyType, second half: searchFunctionBodyType, and the
\* if (!bodyTypeName) return undefined of findBodyType
ExtractTypeName ==
  /\ pc = "FunctionLocated"
  /\ bodyTypeName' = searchFunctionBodyType(functionNode, patternMatchers)
  /\ pc' = IF bodyTypeName' = "" THEN "NotFound" ELSE "TypeNameExtracted"
  /\ UNCHANGED <<file, importMap, functionNode, result, error, escaped, pool,
                 history, call, ret, log, provider, requests>>

\* a resolution that attaches the local definition to an imported name too
resolveTypeNameBoth(sourceFile, map, name) ==
  LET localDefinition == findAnyLocalTypeDefinition(sourceFile, name) IN
    IF MapHas(map, name) /\ localDefinition # <<>>
      THEN [typeName |-> name, importPath |-> map[name],
            localDefinition |-> localDefinition]
    ELSE IF MapHas(map, name) THEN Imported(name, map[name])
    ELSE IF localDefinition # <<>> THEN LocalDefinition(name, localDefinition)
    ELSE Absent

\* console.log(`Type "${bodyTypeName}" not found in imports or local definitions`)
NotFoundLine(name) ==
  [channel |-> "console",
   text |-> <<"Type ", DQ, name, DQ, " not found in imports or local definitions">>]

\* the import map first, the local definitions second
resolveTypeName(sourceFile, map, name) ==
  IF MapHas(map, name) THEN Imported(name, map[name])
  ELSE LET localDefinition == findAnyLocalTypeDefinition(sourceFile, name) IN
    IF localDefinition # <<>> THEN LocalDefinition(name, localDefinition)
    ELSE Absent

ResolveDefinition ==
  /\ pc = "TypeNameExtracted"
  /\ result' = resolveTypeName(file, importMap, bodyTypeName)
  /\ pc' = IF result' = Absent THEN "NotFound" ELSE "Resolved"
  /\ log' = IF result' = Absent THEN Append(log, NotFoundLine(bodyTypeName)) ELSE log
  /\ UNCHANGED <<file, importMap, functionNode, bodyTypeName, error, escaped,
                 pool, history, call, ret, provider, requests>>

Next ==
  \/ IndexImports
  \/ LocateFunction
  \/ ExtractTypeName
  \/ ResolveDefinition

Spec == Init /\ [][Next]_vars

(***************************************************************************)
(* collectImportStatements called directly, on one map that grows          *)
(***************************************************************************)
\* the nodes handed to collectImportStatements
CollectNodes ==
  { ImportNode(TRUE, "", "named", <<Element("", "A")>>, DQ, "m1"),
    ImportNode(TRUE, "", "named", <<Element("", "A"), Element("B", "C")>>, SQ, "m2"),
    ImportNode(TRUE, "", "named", <<Element("", "C")>>, DQ, "m1"),
    ImportNode(TRUE, "D", "none", <<>>, SQ, "m1"),
    ImportNode(TRUE, "D", "named", <<Element("", "A"), Element("B", "C")>>, DQ, "m2"),
    ImportNode(TRUE, "D", "named", <<Element("", "A")>>, DQ, "m1"),
    ImportNode(FALSE, "", "none", <<>>, DQ, "m1"),
    ImportNode(FALSE, "", "none", <<>>, SQ, "m2"),
    ImportNode(TRUE, "", "namespace", <<>>, DQ, "m1"),
    ImportNode(TRUE, "D", "namespace", <<>>, DQ, "m2"),
    VarNode(<<Decl("A", NoType, ZObject)>>, FALSE, FALSE),
    InterfaceNode("D", FALSE, TRUE) }

HelperState ==
  /\ file = SourceFile(<<>>)
  /\ pc = "Helper"
  /\ functionNode = NoNode
  /\ bodyTypeName = ""
  /\ result = Absent
  /\ error = <<>>
  /\ escaped = FALSE
  /\ pool = {}
  /\ history = <<>>
  /\ log = <<>>
  /\ provider = NoProvider
  /\ requests = <<>>

HelperUnchanged ==
  UNCHANGED <<file, pc, functionNode, bodyTypeName, result, error, escaped,
              pool, history, log, provider, requests>>

InitCollect ==
  /\ HelperState
  /\ importMap = EmptyMap
  /\ call = NoCall
  /\ ret = NoCall

\* collectImportStatements(node, sourceFile, importMap)
CollectImport(n) ==
  /\ pc = "Helper"
  /\ call' = [op |-> "collectImportStatements", node |-> n, importMap |-> importMap]
  /\ ret' = collectImportStatements(n, importMap)
  /\ importMap' = ret'.map
  /\ HelperUnchanged

NextCollect == \E n \in CollectNodes : CollectImport(n)

SpecCollect == InitCollect /\ [][NextCollect]_vars

Collected == call.op = "collectImportStatements"

\* the names an import declaration's clause binds in the file
RECURSIVE ElementNames(_)
ElementNames(els) ==
  IF els = <<>> THEN {} ELSE {Head(els).name} \cup ElementNames(Tail(els))
DefaultNames(n) == IF n.hasClause /\ n.default # "" THEN {n.default} ELSE {}
NamedNames(n) ==
  IF n.hasClause /\ n.bindings = "named" THEN ElementNames(n.elements) ELSE {}
IsCombinedImport(n) ==
  n.kind = "import" /\ n.hasClause /\ n.default # "" /\ n.bindings = "named"
IsSideEffectImport(n) == n.kind = "import" /\ ~n.hasClause
IsNamespaceImport(n) ==
  n.kind = "import" /\ n.hasClause /\ n.default = "" /\ n.bindings = "namespace"

\* C4: after collectImportStatements on an import with a combined clause
\* (default plus named), the default name and every named import's local
\* alias are keys of the import map, mapped to the module path.
C4_CombinedClauseBindsAll ==
  (Collected /\ IsCombinedImport(call.node)) =>
    \A n \in DefaultNames(call.node) \cup NamedNames(call.node) :
      MapHas(importMap, n) /\ importMap[n] = call.node.path

\* C6: collectImportStatements on an import with no clause, or with only a
\* namespace binding, raises an error whose message contains the module
\* path, and leaves the import map as it was before the call.
C6_UnsupportedClauseThrows ==
  (Collected /\ (IsSideEffectImport(call.node) \/ IsNamespaceImport(call.node))) =>
    /\ ret.threw
    /\ Includes(ret.message, <<call.node.path>>)
    /\ importMap = call.importMap

C6_Witness ==
  /\ Collected
  /\ IsNamespaceImport(call.node)
  /\ call.importMap # EmptyMap
  /\ ret.threw

(***************************************************************************)
(* Properties of findBodyType                                              *)
(***************************************************************************)
\* the statement nodes of a tree in document order
RECURSIVE Preorder(_)
RECURSIVE PreorderEach(_)
Preorder(n) == <<n>> \o PreorderEach(Children(n))
PreorderEach(ns) ==
  IF ns = <<>> THEN <<>> ELSE Preorder(Head(ns)) \o PreorderEach(Tail(ns))

NodesOf(n) == {Preorder(n)[i] : i \in 1 .. Len(Preorder(n))}

Terminal == pc \in {"Resolved", "NotFound"}

\* some import declaration of the file binds the name
ImportBinds(sourceFile, name) ==
  \E n \in NodesOf(sourceFile) :
    n.kind = "import" /\ name \in DefaultNames(n) \cup NamedNames(n)

\* the node declares the name as an interface, a type alias or a variable
Declares(n, name) ==
  \/ n.kind \in {"interface", "typealias"} /\ n.name = name
  \/ n.kind = "var" /\ \E i \in 1 .. Len(n.decls) : n.decls[i].name = name

DefinedLocally(sourceFile, name) ==
  \E n \in NodesOf(sourceFile) : Declares(n, name)

IsImported(r) == DOMAIN r = {"typeName", "importPath"}
IsLocal(r) == DOMAIN r = {"typeName", "localDefinition"}

\* C1: when the type name extracted from the POST body is both bound by an
\* import declaration and defined locally in the file, findBodyType returns
\* the imported variant, never the local definition.
C1_ImportPriority ==
  (Terminal /\ bodyTypeName # "" /\ ImportBinds(file, bodyTypeName)
     /\ DefinedLocally(file, bodyTypeName)) =>
    (IsImported(result) /\ result.typeName = bodyTypeName)

\* the first function declaration with the name, in document order
FirstFunctionNamed(sourceFile, name) ==
  LET nodes == Preorder(sourceFile)
      hits == {i \in 1 .. Len(nodes) :
                 nodes[i].kind = "function" /\ nodes[i].name = name}
  IN IF hits = {} THEN NoNode
     ELSE nodes[CHOOSE i \in hits : \A j \in hits : i <= j]

\* C3: with two or more function declarations named POST, findFunction
\* returns the first in document order, and only its body is scanned.
C3_FirstFunctionWins ==
  (functionNode # NoNode) => functionNode = FirstFunctionNamed(file, "POST")

HasUnsupportedImport(sourceFile) ==
  \E n \in NodesOf(sourceFile) : IsSideEffectImport(n) \/ IsNamespaceImport(n)

\* C5: if any import declaration of the route file is a side-effect-only or
\* a namespace import, findBodyType returns undefined and no exception
\* escapes it, even when the POST body has an idiom whose type resolves.
C5_UnsupportedImportIsAbsence ==
  /\ ~escaped
  /\ (Terminal /\ HasUnsupportedImport(file)) => (pc = "NotFound" /\ result = Absent)

\* the file without its import declarations resolves to a type
ResolvesWithoutImports(sourceFile) ==
  LET fn == findFunction(sourceFile, "POST") IN
    /\ fn # NoNode
    /\ searchFunctionBodyType(fn, patternMatchers) # ""
    /\ DefinedLocally(sourceFile, searchFunctionBodyType(fn, patternMatchers))

C5_Witness ==
  /\ pc = "NotFound"
  /\ error # <<>>
  /\ HasUnsupportedImport(file)
  /\ ResolvesWithoutImports(file)

\* no function declaration of the file is named POST
NoPostFunction(sourceFile) ==
  \A n \in NodesOf(sourceFile) : ~(n.kind = "function" /\ n.name = "POST")

\* no variable statement inside a POST function matches a body idiom
NoBodyIdiom(sourceFile) ==
  \A f \in NodesOf(sourceFile) :
    (f.kind = "function" /\ f.name = "POST") =>
      \A n \in NodesOf(f) :
        n.kind = "var" =>
          \A i \in 1 .. Len(patternMatchers) : ~matches(patternMatchers[i], n.decls[1])

\* C8: a file with no function declaration named POST, or whose POST body
\* has no statement matching a supported idiom, yields undefined and
\* findBodyType does not raise.
C8_NoIdiomIsAbsence ==
  (Terminal /\ (NoPostFunction(file) \/ NoBodyIdiom(file))) =>
    (pc = "NotFound" /\ result = Absent /\ ~escaped)

C8_Witness ==
  /\ pc = "NotFound"
  /\ error = <<>>
  /\ ~NoPostFunction(file)
  /\ NoBodyIdiom(file)
  /\ functionNode # NoNode
  /\ functionNode.hasBody
  /\ functionNode.body # <<>>

\* C9: every non-absent result of findBodyType carries a type name and
\* exactly one of importPath and localDefinition.
C9_ExactlyOneVariant ==
  (result # Absent) =>
    /\ "typeName" \in DOMAIN result
    /\ result.typeName # ""
    /\ ("importPath" \in DOMAIN result) # ("localDefinition" \in DOMAIN result)
    /\ ("localDefinition" \in DOMAIN result) => result.localDefinition # <<>>

C9_Witness == pc = "Resolved" /\ IsLocal(result)

(***************************************************************************)
(* searchFunctionBodyType called directly                                  *)
(***************************************************************************)
MaxBody == 2

\* the variable statements of the scanned bodies
ScanStatements ==
  { Statement(Decl("a", TypeRef("T"), JsonAwait)),
    Statement(Decl("b", NoType, As(Paren(JsonAwait), TypeRef("U")))),
    Statement(Decl("c", NoType, Call(Prop(Id("S"), "parse"), <<JsonAwait>>))),
    Statement(Decl("d", NoType, JsonAwait)),
    Statement(Decl("e", NoType, TextAwait)),
    Statement(Decl("cfg", NoType, Call(Prop(Id("JSON"), "parse"), <<Id("raw")>>))),
    Statement(Decl("f", TypeLiteral, JsonAwait)),
    VarNode(<<Decl("g", NoType, Id("x")), Decl("h", TypeRef("U"), JsonAwait)>>,
            FALSE, FALSE),
    Statement(Decl("cb", NoType,
                   Arrow(<<Statement(Decl("i", TypeRef("U"), JsonAwait))>>))) }

ScanFunctions ==
  {FunctionNode("POST", TRUE, b) : b \in SeqsUpTo(ScanStatements, MaxBody)}
    \cup {FunctionNode("POST", FALSE, <<>>)}

InitScan ==
  /\ HelperState
  /\ importMap = EmptyMap
  /\ call \in {[op |-> "searchFunctionBodyType", functionNode |-> f] :
                 f \in ScanFunctions}
  /\ ret = NoCall

\* searchFunctionBodyType(functionNode, patternMatchers, sourceFile)
SearchBody ==
  /\ call.op = "searchFunctionBodyType"
  /\ ret = NoCall
  /\ ret' = [name |-> searchFunctionBodyType(call.functionNode, patternMatchers),
             calls |-> scanFunctionBody(call.functionNode, patternMatchers).calls]
  /\ UNCHANGED <<importMap, call>>
  /\ HelperUnchanged

NextScan == SearchBody

SpecScan == InitScan /\ [][NextScan]_vars

\* the type name the statement yields on its own ("": none)
YieldOf(n) ==
  IF n.kind = "var" THEN tryMatchers(patternMatchers, n.decls[1], NoScan).name ELSE ""

\* the statements of the function that yield a type name, as positions in
\* statement order
YieldingStatements(f) ==
  {i \in 1 .. Len(PreorderEach(Children(f))) :
     YieldOf(PreorderEach(Children(f))[i]) # ""}

\* the type name of the first statement of the function, in statement
\* order, that yields one ("": no statement yields a name)
FirstYieldedName(f) ==
  LET hits == YieldingStatements(f)
  IN IF hits = {} THEN ""
     ELSE YieldOf(PreorderEach(Children(f))[CHOOSE i \in hits : \A j \in hits : i <= j])

\* C2: when several variable statements of the body match an idiom and
\* yield a type name, the name returned for the function is the one of the
\* first such statement in statement order.
C2_FirstStatementWins ==
  (call.op = "searchFunctionBodyType" /\ ret # NoCall
     /\ Cardinality(YieldingStatements(call.functionNode)) >= 2) =>
    ret.name = FirstYieldedName(call.functionNode)

(***************************************************************************)
(* findAnyLocalTypeDefinition called directly                              *)
(***************************************************************************)
MaxDeclarations == 2

\* the declarations of the searched files
LocalNodes ==
  {InterfaceNode("T", d, e) : d \in BOOLEAN, e \in BOOLEAN}
    \cup {TypeAliasNode("T", d, e) : d \in BOOLEAN, e \in BOOLEAN}
    \cup {VarNode(<<Decl("T", NoType, ZObject)>>, d, e) : d \in BOOLEAN, e \in BOOLEAN}
    \cup { ModuleNode("NS", <<InterfaceNode("T", TRUE, FALSE)>>),
           ModuleNode("NS", <<TypeAliasNode("T", FALSE, TRUE)>>),
           VarNode(<<Decl("x", NoType, ZObject), Decl("T", NoType, ZObject)>>,
                   TRUE, FALSE),
           FunctionNode("POST", TRUE, <<Statement(Decl("body", TypeRef("T"), JsonAwait))>>) }

LocalFiles == {SourceFile(q) : q \in SeqsUpTo(LocalNodes, MaxDeclarations)}

InitLocal ==
  /\ HelperState
  /\ importMap = EmptyMap
  /\ call \in {[op |-> "findAnyLocalTypeDefinition", sourceFile |-> f, typeName |-> n] :
                 f \in LocalFiles, n \in {"T", "body"}}
  /\ ret = NoCall

\* findAnyLocalTypeDefinition(sourceFile, typeName)
FindLocal ==
  /\ call.op = "findAnyLocalTypeDefinition"
  /\ ret = NoCall
  /\ ret' = [definition |-> findAnyLocalTypeDefinition(call.sourceFile, call.typeName)]
  /\ UNCHANGED <<importMap, call>>
  /\ HelperUnchanged

NextLocal == FindLocal

SpecLocal == InitLocal /\ [][NextLocal]_vars

\* the first declaration of the name, in document order, of a kind the
\* search recognizes
FirstDeclaration(sourceFile, name) ==
  LET nodes == Preorder(sourceFile)
      hits == {i \in 1 .. Len(nodes) :
                 \E x \in 1 .. Len(extractors) : canHandle(extractors[x], nodes[i], name)}
  IN IF hits = {} THEN NoNode
     ELSE nodes[CHOOSE i \in hits : \A j \in hits : i <= j]

Found ==
  /\ call.op = "findAnyLocalTypeDefinition"
  /\ ret # NoCall
  /\ ret.definition # <<>>

HasLeadingDoc(text) == text # <<>> /\ Head(text) = DocComment

\* C7 as claimed: for every declaration kind the search recognizes, the
\* returned text includes the declaration's leading documentation comment
\* and its modifiers.
C7_TextHasDocAndModifiers ==
  Found =>
    LET n == FirstDeclaration(call.sourceFile, call.typeName) IN
      /\ n.doc => HasLeadingDoc(ret.definition)
      /\ n.exported => Includes(ret.definition, <<"export">>)

\* C7 as amended: the text of an interface or a type alias includes its
\* leading documentation comment and its modifiers; the text of a variable
\* declaration includes its modifiers but not its leading comment.
C7_TextHasDocExceptVariables ==
  Found =>
    LET n == FirstDeclaration(call.sourceFile, call.typeName) IN
      /\ n # NoNode
      /\ n.exported => Includes(ret.definition, <<"export">>)
      /\ (n.kind \in {"interface", "typealias"} /\ n.doc) => HasLeadingDoc(ret.definition)
      /\ n.kind = "var" => ~HasLeadingDoc(ret.definition)

C7_Witness ==
  /\ Found
  /\ FirstDeclaration(call.sourceFile, call.typeName).kind = "typealias"
  /\ FirstDeclaration(call.sourceFile, call.typeName).doc
  /\ FirstDeclaration(call.sourceFile, call.typeName).exported
  /\ Len(call.sourceFile.statements) = 2

(***************************************************************************)
(* findBodyType called again and again on the files of a workspace         *)
(***************************************************************************)
MaxCalls == 2

PostWith(d) == FunctionNode("POST", TRUE, <<Statement(d)>>)

\* the route files of the workspaces
WorkspaceFiles ==
  { SourceFile(<<ImportNode(TRUE, "", "named", <<Element("", "T")>>, DQ, "m1"),
                 PostWith(Decl("body", TypeRef("T"), JsonAwait))>>),
    SourceFile(<<InterfaceNode("T", TRUE, TRUE),
                 PostWith(Decl("body", TypeRef("T"), JsonAwait))>>),
    SourceFile(<<ImportNode(TRUE, "", "namespace", <<>>, DQ, "m2"),
                 InterfaceNode("T", FALSE, FALSE),
                 PostWith(Decl("body", TypeRef("T"), JsonAwait))>>),
    SourceFile(<<PostWith(Decl("body", NoType, TextAwait))>>),
    SourceFile(<<ImportNode(TRUE, "T", "none", <<>>, SQ, "m2"),
                 VarNode(<<Decl("T", NoType, ZObject)>>, FALSE, TRUE),
                 PostWith(Decl("body", NoType, Call(Prop(Id("T"), "parse"), <<JsonAwait>>)))>>),
    SourceFile(<<ImportNode(TRUE, "", "named", <<Element("", "U")>>, DQ, "m1"),
                 ImportNode(FALSE, "", "none", <<>>, DQ, "m1"),
                 InterfaceNode("U", FALSE, FALSE),
                 PostWith(Decl("body", NoType, As(JsonAwait, TypeRef("U"))))>>),
    SourceFile(<<InterfaceNode("U", FALSE, FALSE),
                 PostWith(Decl("body", NoType, As(JsonAwait, TypeRef("U"))))>>) }

InitTwice ==
  /\ pool \in {w \in SUBSET WorkspaceFiles : Cardinality(w) \in {1, 2}}
  /\ file \in pool
  /\ pc = "Start"
  /\ importMap = EmptyMap
  /\ functionNode = NoNode
  /\ bodyTypeName = ""
  /\ result = Absent
  /\ error = <<>>
  /\ escaped = FALSE
  /\ history = <<>>
  /\ call = NoCall
  /\ ret = NoCall
  /\ log = <<>>
  /\ provider = NoProvider
  /\ requests = <<>>

\* the running call returns and findBodyType is called on a file of the pool
CallAgain(f) ==
  /\ Terminal
  /\ Len(history) < MaxCalls
  /\ history' = Append(history, <<file, result>>)
  /\ file' = f
  /\ pc' = "Start"
  /\ importMap' = newImportMap(importMap)
  /\ functionNode' = NoNode
  /\ bodyTypeName' = ""
  /\ result' = Absent
  /\ error' = <<>>
  /\ UNCHANGED <<escaped, pool, call, ret, log, provider, requests>>

NextTwice ==
  \/ IndexImports
  \/ LocateFunction
  \/ ExtractTypeName
  \/ ResolveDefinition
  \/ \E f \in pool : CallAgain(f)

SpecTwice == InitTwice /\ [][NextTwice]_vars

\* the finished calls, the running one included once it has returned
Finished == IF Terminal THEN Append(history, <<file, result>>) ELSE history

\* C10: two calls on the same source return the same result; no call
\* leaves state behind that changes the result of a later call.
C10_SameSourceSameResult ==
  \A i, j \in 1 .. Len(Finished) :
    Finished[i][1] = Finished[j][1] => Finished[i][2] = Finished[j][2]

C10_Witness ==
  /\ Terminal
  /\ Len(history) = 2
  /\ history[1][1] = file
  /\ history[2][1] # file
  /\ IsLocal(result)
  /\ IsImported(history[2][2])

(***************************************************************************)
(* Hover pattern matchers.  A line of a document is a sequence of tokens;  *)
(* a URI is the sequence of tokens between two quotes.  The lines have no  *)
(* white space inside the head of a call, so the \s* of the patterns       *)
(* match nothing.                                                          *)
(***************************************************************************)
Methods == {"post", "put", "patch", "delete", "get"}
Words == {"fetch", "axios", "client", "http", "request", "data", "url"} \cup Methods

At(line, i) == IF i \in 1 .. Len(line) THEN line[i] ELSE ""

\* [^'"]*['"] from position i: the position of the next quote (0: none)
ClosingQuote(line, i) ==
  IF \E j \in i .. Len(line) : line[j] \in {DQ, SQ}
  THEN CHOOSE j \in i .. Len(line) :
         line[j] \in {DQ, SQ} /\ \A k \in i .. j - 1 : line[k] \notin {DQ, SQ}
  ELSE 0

NoMatchAt == [matched |-> FALSE, uri |-> <<>>, at |-> 0]

\* the capture that ends before the quote at position close (0: no quote),
\* of a match that began at position at
Captured(line, from, close, at) ==
  IF close = 0 THEN NoMatchAt
  ELSE [matched |-> TRUE, uri |-> SubSeq(line, from, close - 1), at |-> at]

\* ['"](\/api[^'"]*)['"] (api) or ['"](.*?)['"] at position i
Quoted(line, i, at, api) ==
  IF At(line, i) \in {DQ, SQ} /\ (api => At(line, i + 1) = "/api")
  THEN Captured(line, i + 1, ClosingQuote(line, i + 1), at)
  ELSE NoMatchAt

\* [.\w]* from position i: the position behind it
RECURSIVE SkipWords(_, _)
SkipWords(line, i) ==
  IF i <= Len(line) /\ (line[i] = "." \/ line[i] \in Words)
  THEN SkipWords(line, i + 1) ELSE i

\* [^}]*?url:\s*['"](\/api[^'"]*)['"] from position k
RECURSIVE ConfigUrl(_, _, _)
ConfigUrl(line, k, at) ==
  IF k > Len(line) \/ line[k] = "}" THEN NoMatchAt
  ELSE IF line[k] = "url" /\ At(line, k + 1) = ":" /\ Quoted(line, k + 2, at, TRUE).matched
    THEN Quoted(line, k + 2, at, TRUE)
  ELSE ConfigUrl(line, k + 1, at)

\* \s*\(\s*['"](.*?)['"] at position open
MockOpen(line, open, at) ==
  IF At(line, open) = "(" THEN Quoted(line, open + 1, at, FALSE) ELSE NoMatchAt

\* a pattern of the matchers tried at position i of the line: whether it
\* matches there, and its capture
\*   fetch         /fetch\s*\(\s*['"](\/api[^'"]*)['"]/
\*   instance      /(\w+)\.(?:post|put|patch|delete|get)\s*\(\s*['"](\/api[^'"]*)['"]/
\*   axios-call    /axios\.(?:post|put|patch|delete|get)\s*\(\s*['"](\/api[^'"]*)['"]/
\*   axios-config  /axios\s*\(\s*\{[^}]*?url:\s*['"](\/api[^'"]*)['"]/
\*   mock          word[.\w]*\s*\(\s*['"](.*?)['"]
MatchAt(pattern, line, i) ==
  IF pattern.re = "fetch"
    THEN IF line[i] = "fetch" /\ At(line, i + 1) = "("
         THEN Quoted(line, i + 2, i, TRUE) ELSE NoMatchAt
  ELSE IF pattern.re \in {"instance", "axios-call"}
    THEN IF /\ (IF pattern.re = "instance" THEN line[i] \in Words ELSE line[i] = "axios")
            /\ At(line, i + 1) = "."
            /\ At(line, i + 2) \in Methods
            /\ At(line, i + 3) = "("
         THEN Quoted(line, i + 4, i, TRUE) ELSE NoMatchAt
  ELSE IF pattern.re = "axios-config"
    THEN IF line[i] = "axios" /\ At(line, i + 1) = "(" /\ At(line, i + 2) = "{"
         THEN ConfigUrl(line, i + 3, i) ELSE NoMatchAt
  ELSE IF line[i] = pattern.word THEN MockOpen(line, SkipWords(line, i + 1), i)
  ELSE NoMatchAt

\* line.match(pattern): the leftmost match, looked for from position i on
RECURSIVE FirstMatchFrom(_, _, _)
FirstMatchFrom(pattern, line, i) ==
  IF i > Len(line) THEN NoMatchAt
  ELSE IF MatchAt(pattern, line, i).matched THEN MatchAt(pattern, line, i)
  ELSE FirstMatchFrom(pattern, line, i + 1)

FirstMatch(pattern, line) == FirstMatchFrom(pattern, line, 1)

FetchPatternMatcher ==
  [name |-> "fetch-pattern", priority |-> 10, kind |-> "fetch", pattern |-> "",
   shouldMatch |-> TRUE, languages |-> {"typescript", "typescriptreact"}]
AxiosPatternMatcher ==
  [name |-> "axios-pattern", priority |-> 8, kind |-> "axios", pattern |-> "",
   shouldMatch |-> TRUE,
   languages |-> {"typescript", "typescriptreact", "javascript", "javascriptreact"}]
\* the matcher of the tests whose extractUri throws
FailingMatcher ==
  [name |-> "failing-matcher", priority |-> 50, kind |-> "failing", pattern |-> "",
   shouldMatch |-> TRUE, languages |-> {"typescript"}]
\* the tests' MockPatternMatcher and its subclasses for one language
MockPatternMatcher(pattern, priority, shouldMatch, languages) ==
  [name |-> "mock-" \o pattern, priority |-> priority, kind |-> "mock",
   pattern |-> pattern, shouldMatch |-> shouldMatch, languages |-> languages]

\* line.includes(word)
LineIncludes(line, word) == \E i \in 1 .. Len(line) : line[i] = word

\* AxiosPatternMatcher.extractUri once its three patterns are matched
axiosUri(line, instance, axiosCall, axiosConfig) ==
  IF /\ LineIncludes(line, "axios")
     /\ instance.matched
     /\ line[instance.at] \notin {"http", "fetch"}
  THEN instance.uri
  ELSE IF axiosCall.matched THEN axiosCall.uri
  ELSE axiosConfig.uri

\* IHoverPatternMatcher.extractUri(line, position), by the matcher's class:
\* whether it threw, and the uri (<<>>: undefined or the empty string)
extractUri(matcher, line) ==
  IF matcher.kind = "fetch"
    THEN [threw |-> FALSE, uri |-> FirstMatch([re |-> "fetch"], line).uri]
  ELSE IF matcher.kind = "axios"
    THEN [threw |-> FALSE,
          uri |-> axiosUri(line, FirstMatch([re |-> "instance"], line),
                           FirstMatch([re |-> "axios-call"], line),
                           FirstMatch([re |-> "axios-config"], line))]
  ELSE IF matcher.kind = "mock"
    THEN [threw |-> FALSE,
          uri |-> IF matcher.shouldMatch /\ LineIncludes(line, matcher.pattern)
                  THEN FirstMatch([re |-> "mock", word |-> matcher.pattern], line).uri
                  ELSE <<>>]
  ELSE [threw |-> TRUE, uri |-> <<>>]

\* IHoverPatternMatcher.getSupportedLanguages()
getSupportedLanguages(matcher) == matcher.languages

(***************************************************************************)
(* ExtensibleHoverProvider                                                 *)
(***************************************************************************)
\* Array.prototype.sort with (a, b) => b.priority - a.priority, which is
\* stable: m goes behind every matcher whose priority is not lower
RECURSIVE InsertByPriority(_, _)
InsertByPriority(sorted, m) ==
  IF sorted = <<>> THEN <<m>>
  ELSE IF Head(sorted).priority >= m.priority
    THEN <<Head(sorted)>> \o InsertByPriority(Tail(sorted), m)
  ELSE <<m>> \o sorted

\* a constructor that keeps the matchers in the order it was given
keepOrder(matchers) == matchers

\* this.patternMatchers.sort((a, b) => b.priority - a.priority)
RECURSIVE sortByPriority(_)
sortByPriority(matchers) ==
  IF matchers = <<>> THEN <<>>
  ELSE InsertByPriority(sortByPriority(SubSeq(matchers, 1, Len(matchers) - 1)),
                        matchers[Len(matchers)])

\* new ExtensibleHoverProvider(patternMatchers, typeResolver, contentGenerator)
ExtensibleHoverProvider(matchers, resolver, generator) ==
  [patternMatchers |-> sortByPriority(matchers),
   typeResolver |-> resolver,
   contentGenerator |-> generator]

\* logInfo / logError: a line of the output channel behind its time stamp
logInfo(message) == [channel |-> "TypeView", text |-> <<"[timestamp] ">> \o message]
logError(message, errorMessage) == logInfo(message \o <<": ", errorMessage>>)

\* a language test that every matcher passes
supportsAnyLanguage(matcher, document) == TRUE

\* matcher.getSupportedLanguages().includes(document.languageId)
supportsLanguage(matcher, document) ==
  document.languageId \in getSupportedLanguages(matcher)

\* a matcher loop that a throwing matcher ends
stopAfterThrow(rest) == <<>>

\* catch (error) { ...; continue; }: the matchers still to try
continueAfterThrow(rest) == rest

\* the loop over this.patternMatchers of provideHover: the uri it ends with
\* (<<>>: none), the matchers asked to extract, and the lines logged
RECURSIVE tryPatternMatchers(_, _, _)
RECURSIVE afterExtractUri(_, _, _, _)
tryPatternMatchers(matchers, document, acc) ==
  IF matchers = <<>> THEN acc
  ELSE IF ~supportsLanguage(Head(matchers), document)
    THEN tryPatternMatchers(Tail(matchers), document, acc)
  ELSE afterExtractUri(matchers, document,
                       [acc EXCEPT !.asked = Append(@, Head(matchers).name)],
                       extractUri(Head(matchers), document.line))

\* the body of the loop once extractUri has returned r, or thrown
afterExtractUri(matchers, document, acc, r) ==
  IF r.threw
    THEN tryPatternMatchers(continueAfterThrow(Tail(matchers)), document,
           [acc EXCEPT !.lines = Append(@, logError(
              <<"Pattern matcher failed: ", Head(matchers).name>>, "Matcher failed"))])
  ELSE IF r.uri # <<>>
    THEN [acc EXCEPT !.uri = r.uri, !.by = Head(matchers).name,
                     !.lines = Append(@, logInfo(
                       <<"Pattern matched by ", Head(matchers).name, ": ">> \o r.uri))]
  ELSE tryPatternMatchers(Tail(matchers), document, acc)

NoMatch == [uri |-> <<>>, asked |-> <<>>, by |-> "", lines |-> <<>>]

\* HoverContentSource; NoSource is undefined
ContentSource(typeName, definition, sourceInfo) ==
  [typeName |-> typeName, definition |-> definition, sourceInfo |-> sourceInfo]
NoSource == [typeName |-> ""]

\* what a promise settles with: a value, or (threw) the error of a rejection
Fulfilled(source) == [threw |-> FALSE, source |-> source]

\* the resolvers of the tests, and the one activate() registers
MockTypeResolver(response) == [kind |-> "mock", response |-> response]
FailingResolver == [kind |-> "failing", response |-> NoSource]
NextjsApiRouteTypeResolver == [kind |-> "nextjs", response |-> NoSource]

\* resolveTypeInfo of the tests' resolvers, which have no await; the uri
\* starts with "/api/" when a token follows its "/api"
resolveMockTypeInfo(resolver, uri) ==
  IF resolver.kind = "failing" THEN [threw |-> TRUE, source |-> NoSource]
  ELSE IF resolver.response # NoSource /\ Len(uri) >= 2 /\ uri[1] = "/api"
    THEN Fulfilled(resolver.response)
  ELSE Fulfilled(NoSource)

\* IHoverContentGenerator.generateHoverContent(uri, contentSource), by class;
\* the markdown is the sequence of its appended parts, without the back
\* quotes of its code spans
generateHoverContent(generator, uri, contentSource) ==
  IF generator = "TypeHoverContentGenerator"
    THEN [threw |-> FALSE,
          markdown |-> << [appendMarkdown |-> <<"**Request Body Type** for ">> \o uri],
                          [appendCodeblock |-> contentSource.definition],
                          [appendMarkdown |-> contentSource.sourceInfo] >>]
  ELSE [threw |-> TRUE, markdown |-> <<>>]

NoHover == [contents |-> <<>>]
Hover(markdown) == [contents |-> markdown]

\* provideHover after the await of resolveTypeInfo: what it returns and logs
\* once the resolver's promise has settled
hoverContinuation(generator, uri, settled) ==
  IF settled.threw
    THEN [hover |-> NoHover,
          lines |-> <<logError(<<"Type resolver failed">>, "Resolver failed")>>]
  ELSE IF settled.source = NoSource THEN [hover |-> NoHover, lines |-> <<>>]
  ELSE LET resolved == logInfo(<<"Type resolved for ">> \o uri
                                 \o <<": ", settled.source.typeName>>)
           content == generateHoverContent(generator, uri, settled.source)
       IN IF content.threw
            THEN [hover |-> NoHover,
                  lines |-> <<resolved,
                              logError(<<"Content generator failed">>, "Generator failed")>>]
          ELSE [hover |-> Hover(content.markdown),
                lines |-> <<resolved,
                            logInfo(<<"Hover content generated for ">> \o uri)>>]

(***************************************************************************)
(* provideHover on providers built from the matchers, resolvers and        *)
(* generators of the tests                                                 *)
(***************************************************************************)
MaxMatchers == 3

\* a text document: its language, the line under the position, and whether
\* lineAt throws for the position
Document(languageId, line, lineThrows) ==
  [languageId |-> languageId, line |-> line, lineThrows |-> lineThrows]

FetchCall(quote, path) == <<"fetch", "(", quote, "/api", path, quote, ")">>
AxiosCall(method, quote, path) ==
  <<"axios", ".", method, "(", quote, "/api", path, quote, ",", WS, "data", ")">>

HoverDocuments ==
  { Document("typescript", FetchCall(DQ, "/users"), FALSE),
    Document("typescriptreact", AxiosCall("post", SQ, "/posts"), FALSE),
    Document("javascript", AxiosCall("get", DQ, "/users"), FALSE),
    Document("typescript",
             FetchCall(DQ, "/users") \o <<";", WS>> \o AxiosCall("post", DQ, "/posts"),
             FALSE),
    Document("python", FetchCall(DQ, "/users"), FALSE),
    Document("typescript", <<"fetch", "(", DQ, DQ, ")">>, FALSE),
    Document("typescript", FetchCall(DQ, "/users"), TRUE) }

MatcherPool ==
  { FetchPatternMatcher,
    AxiosPatternMatcher,
    FailingMatcher,
    MockPatternMatcher("fetch", 1, TRUE, {"typescript"}),
    MockPatternMatcher("axios", 10, TRUE, {"typescript", "typescriptreact"}),
    MockPatternMatcher("request", 5, FALSE, {"typescript", "typescriptreact"}) }

\* the matcher arrays handed to the constructor: no matcher twice
MatcherLists ==
  {q \in SeqsUpTo(MatcherPool, MaxMatchers) :
     \A i, j \in 1 .. Len(q) : q[i] = q[j] => i = j}

TestResolvers ==
  { MockTypeResolver(ContentSource("MockType", <<"interface", WS, "MockType", "{", "}">>,
                                   "Mock source")),
    MockTypeResolver(NoSource),
    FailingResolver }
TestGenerators == {"TypeHoverContentGenerator", "FailingGenerator"}

\* the locals of one provideHover call
NewRequest ==
  [pc |-> "Idle", document |-> Document("", <<>>, FALSE), uri |-> <<>>, asked |-> <<>>,
   by |-> "", resolverCalled |-> FALSE, routeFile |-> NoNode, typeInfo |-> Absent,
   typeFile |-> NoNode, settled |-> Fulfilled(NoSource), hover |-> NoHover]

HoverState ==
  /\ file = SourceFile(<<>>)
  /\ pc = "Hover"
  /\ importMap = EmptyMap
  /\ functionNode = NoNode
  /\ bodyTypeName = ""
  /\ result = Absent
  /\ error = <<>>
  /\ escaped = FALSE
  /\ pool = {}
  /\ history = <<>>
  /\ call = NoCall
  /\ ret = NoCall
  /\ log = <<>>

HoverUnchanged ==
  UNCHANGED <<file, pc, functionNode, bodyTypeName, result, error, escaped,
              pool, history, call, ret, provider>>

InitHover ==
  /\ HoverState
  /\ provider \in {ExtensibleHoverProvider(ms, r, g) :
                     ms \in MatcherLists, r \in TestResolvers, g \in TestGenerators}
  /\ requests = <<NewRequest>>

\* provideHover between its matcher loop, which ended with m, and its await:
\* the call's locals, and the lines logged
afterMatchers(request, document, resolver, m) ==
  LET r == [request EXCEPT !.document = document, !.uri = m.uri,
                           !.asked = m.asked, !.by = m.by]
  IN [lines |-> m.lines,
      request |->
        IF m.uri = <<>> THEN [r EXCEPT !.pc = "Done"]
        ELSE IF resolver.kind = "nextjs"
          THEN [r EXCEPT !.pc = "FindingRoute", !.resolverCalled = TRUE]
        ELSE [r EXCEPT !.pc = "Settled", !.resolverCalled = TRUE,
                       !.settled = resolveMockTypeInfo(resolver, m.uri)]]

\* provideHover(document, position) up to its await: the position is
\* validated, the matchers are tried and the resolver is called
ProvideHover(i, document) ==
  /\ pc = "Hover"
  /\ requests[i].pc = "Idle"
  /\ IF document.lineThrows
     THEN /\ requests' = [requests EXCEPT ![i].pc = "Done", ![i].document = document]
          /\ log' = Append(log, logError(<<"ExtensibleHoverProvider failed">>,
                                         "Illegal value for line"))
     ELSE LET a == afterMatchers(requests[i], document, provider.typeResolver,
                     tryPatternMatchers(provider.patternMatchers, document, NoMatch))
          IN /\ log' = log \o a.lines
             /\ requests' = [requests EXCEPT ![i] = a.request]
  /\ UNCHANGED importMap
  /\ HoverUnchanged

\* provideHover from its await on: the resolver's promise has settled
ContinueHover(i) ==
  /\ pc = "Hover"
  /\ requests[i].pc = "Settled"
  /\ LET c == hoverContinuation(provider.contentGenerator, requests[i].uri,
                                requests[i].settled)
     IN /\ requests' = [requests EXCEPT ![i].pc = "Done", ![i].hover = c.hover]
        /\ log' = log \o c.lines
  /\ UNCHANGED importMap
  /\ HoverUnchanged

NextHover ==
  \/ \E i \in DOMAIN requests, d \in HoverDocuments : ProvideHover(i, d)
  \/ \E i \in DOMAIN requests : ContinueHover(i)

SpecHover == InitHover /\ [][NextHover]_vars

(***************************************************************************)
(* Properties of provideHover                                              *)
(***************************************************************************)
\* the provideHover calls that have run their matcher loop
Matched(i) == requests[i].pc # "Idle" /\ ~requests[i].document.lineThrows

MatcherNamed(name) == CHOOSE m \in MatcherPool : m.name = name

Supports(m, document) == document.languageId \in m.languages
Throws(m, document) == Supports(m, document) /\ extractUri(m, document.line).threw
\* the matcher supports the document's language and extracts a non-empty uri
Yields(m, document) ==
  /\ Supports(m, document)
  /\ ~extractUri(m, document.line).threw
  /\ extractUri(m, document.line).uri # <<>>

ProviderMatchers == {provider.patternMatchers[k] : k \in DOMAIN provider.patternMatchers}

\* C12: the matchers are tried in descending priority whatever order the
\* constructor was given, and the uri resolved is the one of a matcher of
\* the highest priority among those that support the document's language
\* and extract a non-empty uri; without such a matcher there is no uri.
C12_HighestPriorityMatcherWins ==
  \A i \in DOMAIN requests :
    Matched(i) =>
      LET r == requests[i]
          yielding == {m \in ProviderMatchers : Yields(m, r.document)}
      IN /\ \A a, b \in 1 .. Len(r.asked) :
              a < b => MatcherNamed(r.asked[a]).priority >= MatcherNamed(r.asked[b]).priority
         /\ IF yielding = {} THEN r.uri = <<>>
            ELSE \E m \in yielding :
                   /\ r.by = m.name
                   /\ r.uri = extractUri(m, r.document.line).uri
                   /\ \A o \in yielding : o.priority <= m.priority

C12_Witness ==
  /\ Len(provider.patternMatchers) = 3
  /\ requests[1].pc = "Done"
  /\ requests[1].by = "mock-fetch"
  /\ Len(requests[1].asked) = 3
  /\ requests[1].hover # NoHover

\* C13: a matcher that throws is skipped and the next matcher in priority
\* order is still tried; a resolver or a generator that throws, like a
\* lineAt that throws, makes provideHover return null instead of raising.
C13_ThrowingComponentYieldsNothing ==
  \A i \in DOMAIN requests :
    LET r == requests[i]
        ms == provider.patternMatchers
        Asked(m) == \E a \in 1 .. Len(r.asked) : r.asked[a] = m.name
    IN /\ Matched(i) =>
            \A k \in 1 .. Len(ms) :
              (Throws(ms[k], r.document)
                 /\ \A j \in 1 .. k - 1 : ~Yields(ms[j], r.document)) =>
                /\ Asked(ms[k])
                /\ r.by # ms[k].name
                /\ \A j \in k + 1 .. Len(ms) :
                     (Supports(ms[j], r.document)
                        /\ \A x \in k + 1 .. j - 1 : ~Yields(ms[x], r.document)) =>
                       Asked(ms[j])
       /\ (r.pc = "Done" /\ r.document.lineThrows) => r.hover = NoHover
       /\ (r.pc = "Done" /\ r.settled.threw) => r.hover = NoHover
       /\ (r.pc = "Done" /\ provider.contentGenerator = "FailingGenerator") =>
            r.hover = NoHover

C13_Witness ==
  /\ requests[1].pc = "Done"
  /\ requests[1].asked = <<"failing-matcher", "fetch-pattern">>
  /\ requests[1].by = "fetch-pattern"
  /\ requests[1].settled.threw
  /\ requests[1].hover = NoHover

\* C14: a matcher whose supported languages do not contain the document's
\* languageId is never asked to extract a uri for it; when no matcher
\* supports the language, provideHover returns null and the resolver is
\* not called.
C14_UnsupportedLanguageNeverAsked ==
  \A i \in DOMAIN requests :
    Matched(i) =>
      LET r == requests[i] IN
        /\ \A a \in 1 .. Len(r.asked) : Supports(MatcherNamed(r.asked[a]), r.document)
        /\ (\A m \in ProviderMatchers : ~Supports(m, r.document)) =>
             (r.pc = "Done" /\ r.hover = NoHover /\ ~r.resolverCalled)

C14_Witness ==
  /\ Len(provider.patternMatchers) = 3
  /\ requests[1].pc = "Done"
  /\ requests[1].document.languageId = "python"
  /\ requests[1].asked = <<>>
  /\ ~requests[1].resolverCalled

(***************************************************************************)
(* NextjsApiRouteTypeResolver behind the provider activate() registers,    *)
(* with several provideHover calls in flight                               *)
(***************************************************************************)
MaxRequests == 2

\* findBodyType once a body idiom has yielded name ("": none did)
findBodyTypeNamed(sourceFile, map, name) ==
  IF name = "" THEN [result |-> Absent, importMap |-> map, lines |-> <<>>]
  ELSE [result |-> resolveTypeName(sourceFile, map, name),
        importMap |-> map,
        lines |-> IF resolveTypeName(sourceFile, map, name) = Absent
                  THEN <<NotFoundLine(name)>> ELSE <<>>]

\* findBodyType once findFunction has returned fn
findBodyTypeInFunction(sourceFile, map, fn) ==
  IF fn = NoNode THEN [result |-> Absent, importMap |-> map, lines |-> <<>>]
  ELSE findBodyTypeNamed(sourceFile, map, searchFunctionBodyType(fn, patternMatchers))

\* findBodyType once the imports are indexed, or the indexing has thrown
findBodyTypeIndexed(sourceFile, indexed) ==
  IF indexed.threw
    THEN [result |-> onCatch(indexed.message).result, importMap |-> indexed.map,
          lines |-> onCatch(indexed.message).lines]
  ELSE findBodyTypeInFunction(sourceFile, indexed.map, findFunction(sourceFile, "POST"))

\* findBodyType from the file's content on, which runs without an await:
\* what it returns, the import map it built and the lines it logged
findBodyType(sourceFile, previous) ==
  findBodyTypeIndexed(sourceFile, visit(sourceFile, Returned(newImportMap(previous))))

\* extractTypeDefinition(typeFileUri, typeName) from the file's content on
extractTypeDefinition(sourceFile, typeName) ==
  findLocalVisit(sourceFile, typeName, <<>>)

\* findRouteFileForUri(uri): NextjsAppRouterResolver.resolve over the route
\* directories of the workspace, which holds three route files (NoNode:
\* undefined)
routeFileFinder(uri) ==
  IF uri = <<>> \/ Head(uri) # "/api" THEN NoNode
  ELSE IF uri = <<"/api", "/users">>
    THEN SourceFile(<<ImportNode(TRUE, "", "named", <<Element("", "T")>>, DQ, "m1"),
                      PostWith(Decl("body", TypeRef("T"), JsonAwait))>>)
  ELSE IF uri = <<"/api", "/posts">>
    THEN SourceFile(<<InterfaceNode("T", TRUE, TRUE),
                      PostWith(Decl("body", TypeRef("T"), JsonAwait))>>)
  ELSE IF uri = <<"/api", "/auth">>
    THEN SourceFile(<<ImportNode(TRUE, "", "namespace", <<>>, DQ, "m2"),
                      InterfaceNode("T", FALSE, FALSE),
                      PostWith(Decl("body", TypeRef("T"), JsonAwait))>>)
  ELSE NoNode

\* resolveModulePath(importPath, workspaceRoot): the file the tsconfig paths
\* and the file system give for the module path (NoNode: undefined); the
\* workspace has a file behind m1 only
resolveModulePath(importPath) ==
  IF importPath = "m1"
  THEN SourceFile(<<VarNode(<<Decl("T", NoType, ZObject)>>, TRUE, TRUE),
                    InterfaceNode("T", TRUE, TRUE)>>)
  ELSE NoNode

\* resolveTypeInfo after findBodyType has returned typeInfo: either it has
\* its answer, or it has a type file to read
afterFindBodyType(typeInfo) ==
  IF typeInfo = Absent THEN [settled |-> TRUE, source |-> NoSource, typeFile |-> NoNode]
  ELSE IF "localDefinition" \in DOMAIN typeInfo /\ typeInfo.localDefinition # <<>>
    THEN [settled |-> TRUE, typeFile |-> NoNode,
          source |-> ContentSource(typeInfo.typeName, typeInfo.localDefinition,
                                   "*(Defined in same file)*")]
  ELSE IF "importPath" \in DOMAIN typeInfo /\ typeInfo.importPath # ""
    THEN IF resolveModulePath(typeInfo.importPath) = NoNode
         THEN [settled |-> TRUE, source |-> NoSource, typeFile |-> NoNode]
         ELSE [settled |-> FALSE, source |-> NoSource,
               typeFile |-> resolveModulePath(typeInfo.importPath)]
  ELSE [settled |-> TRUE, source |-> NoSource, typeFile |-> NoNode]

\* resolveTypeInfo after extractTypeDefinition has returned
afterExtractTypeDefinition(typeInfo, typeDefinitionText) ==
  IF typeDefinitionText = <<>> THEN NoSource
  ELSE ContentSource(typeInfo.typeName, typeDefinitionText,
                     "*From: " \o typeInfo.importPath \o "*")

\* the documents hovered over while other calls are in flight
ConcurrentDocuments ==
  { Document("typescript", FetchCall(DQ, "/users"), FALSE),
    Document("typescriptreact", AxiosCall("post", SQ, "/posts"), FALSE),
    Document("typescript", FetchCall(SQ, "/auth"), FALSE),
    Document("typescript", FetchCall(DQ, "/none"), FALSE) }

\* the provider activate() registers, and no call yet
InitConcurrent ==
  /\ HoverState
  /\ provider = ExtensibleHoverProvider(<<FetchPatternMatcher, AxiosPatternMatcher>>,
                                        NextjsApiRouteTypeResolver,
                                        "TypeHoverContentGenerator")
  /\ requests = [i \in 1 .. MaxRequests |-> NewRequest]

\* await this.routeFileFinder(uri) returns; findBodyType starts to read
RouteFileFound(i) ==
  /\ pc = "Hover"
  /\ requests[i].pc = "FindingRoute"
  /\ LET routeFilePath == routeFileFinder(requests[i].uri) IN
       requests' = [requests EXCEPT ![i] =
         IF routeFilePath = NoNode
         THEN [@ EXCEPT !.pc = "Settled", !.settled = Fulfilled(NoSource)]
         ELSE [@ EXCEPT !.pc = "ReadingRoute", !.routeFile = routeFilePath]]
  /\ UNCHANGED <<importMap, log>>
  /\ HoverUnchanged

\* the route file is read: findBodyType runs to its return
RouteFileRead(i) ==
  /\ pc = "Hover"
  /\ requests[i].pc = "ReadingRoute"
  /\ LET r == findBodyType(requests[i].routeFile, importMap) IN
       /\ importMap' = r.importMap
       /\ log' = log \o r.lines
       /\ requests' = [requests EXCEPT ![i].pc = "TypeInfoReturned",
                                       ![i].typeInfo = r.result]
  /\ HoverUnchanged

\* await findBodyType(routeFilePath) returns in resolveTypeInfo
TypeInfoReturned(i) ==
  /\ pc = "Hover"
  /\ requests[i].pc = "TypeInfoReturned"
  /\ LET a == afterFindBodyType(requests[i].typeInfo) IN
       requests' = [requests EXCEPT ![i] =
         IF a.settled
         THEN [@ EXCEPT !.pc = "Settled", !.settled = Fulfilled(a.source)]
         ELSE [@ EXCEPT !.pc = "ReadingTypeFile", !.typeFile = a.typeFile]]
  /\ UNCHANGED <<importMap, log>>
  /\ HoverUnchanged

\* the type file is read: extractTypeDefinition and resolveTypeInfo return
TypeFileRead(i) ==
  /\ pc = "Hover"
  /\ requests[i].pc = "ReadingTypeFile"
  /\ requests' = [requests EXCEPT
       ![i].pc = "Settled",
       ![i].settled = Fulfilled(afterExtractTypeDefinition(
                        requests[i].typeInfo,
                        extractTypeDefinition(requests[i].typeFile,
                                              requests[i].typeInfo.typeName)))]
  /\ UNCHANGED <<importMap, log>>
  /\ HoverUnchanged

NextConcurrent ==
  \/ \E i \in DOMAIN requests, d \in ConcurrentDocuments : ProvideHover(i, d)
  \/ \E i \in DOMAIN requests : RouteFileFound(i)
  \/ \E i \in DOMAIN requests : RouteFileRead(i)
  \/ \E i \in DOMAIN requests : TypeInfoReturned(i)
  \/ \E i \in DOMAIN requests : TypeFileRead(i)
  \/ \E i \in DOMAIN requests : ContinueHover(i)

SpecConcurrent == InitConcurrent /\ [][NextConcurrent]_vars

\* what findBodyType returns for the route file when nothing ran before it
TypeInfoAlone(routeFile) == findBodyType(routeFile, EmptyMap).result

\* what resolveTypeInfo settles with once findBodyType has returned typeInfo
\* and no other call runs
SourceAfter(typeInfo, a) ==
  IF a.settled THEN a.source
  ELSE afterExtractTypeDefinition(
         typeInfo, extractTypeDefinition(a.typeFile, typeInfo.typeName))
SourceOf(typeInfo) == SourceAfter(typeInfo, afterFindBodyType(typeInfo))

\* what resolveTypeInfo settles with for the uri when it runs alone
SourceAlone(uri) ==
  IF routeFileFinder(uri) = NoNode THEN NoSource
  ELSE SourceOf(TypeInfoAlone(routeFileFinder(uri)))

\* what provideHover returns for the document when it runs alone
HoverAfter(m) ==
  IF m.uri = <<>> THEN NoHover
  ELSE hoverContinuation(provider.contentGenerator, m.uri,
                         Fulfilled(SourceAlone(m.uri))).hover
HoverAlone(document) ==
  HoverAfter(tryPatternMatchers(provider.patternMatchers, document, NoMatch))

\* C11: with several provideHover calls in flight on one provider, for the
\* same or for different documents and under any interleaving of their
\* steps, each call gets the type information and returns the hover it
\* would get and return if it ran alone.
C11_ConcurrentCallsIndependent ==
  \A i \in DOMAIN requests :
    LET r == requests[i] IN
      /\ r.pc \in {"TypeInfoReturned", "ReadingTypeFile"} =>
           r.typeInfo = TypeInfoAlone(routeFileFinder(r.uri))
      /\ r.pc = "Settled" => r.settled = Fulfilled(SourceAlone(r.uri))
      /\ r.pc = "Done" => r.hover = HoverAlone(r.document)

\* the first two lines of the log are pattern matches of two calls, so the
\* calls overlap; one returned a local definition, the other an imported one
C11_Witness ==
  /\ \A i \in DOMAIN requests : requests[i].pc = "Done"
  /\ \E i, j \in DOMAIN requests :
       /\ IsLocal(requests[i].typeInfo)
       /\ IsImported(requests[j].typeInfo)
       /\ requests[i].hover # NoHover
       /\ requests[j].hover # NoHover
       /\ requests[i].hover # requests[j].hover
  /\ Len(log) >= 2
  /\ log[1].text[2] = "Pattern matched by "
  /\ log[2].text[2] = "Pattern matched by "

(***************************************************************************)
(* More properties of findBodyType                                         *)
(***************************************************************************)
\* C15: when import indexing fails with an import-clause error, findBodyType
\* reports it before it returns undefined: some logged line names the module
\* path of an unsupported import declaration of the file.
C15_ImportErrorIsReported ==
  (pc = "NotFound" /\ error # <<>>) =>
    \E k \in 1 .. Len(log) :
      \E n \in NodesOf(file) :
        /\ IsSideEffectImport(n) \/ IsNamespaceImport(n)
        /\ Includes(log[k].text, <<n.path>>)

\* const NAME = SCHEMA.parse(await EXPR.json())
IsSchemaParse(n, schema) ==
  /\ n.kind = "var"
  /\ n.decls[1].init.k = "call"
  /\ n.decls[1].init.callee = Prop(Id(schema), "parse")
  /\ Len(n.decls[1].init.args) = 1
  /\ n.decls[1].init.args[1].k = "await"
  /\ EndsWith(ExprText(n.decls[1].init.args[1].expr), JsonCallSuffix)

\* the const statements of the file that bind the name with their one declarator
ConstStatements(sourceFile, name) ==
  {n \in NodesOf(sourceFile) :
     n.kind = "var" /\ Len(n.decls) = 1 /\ n.decls[1].name = name}

\* C16: for a file whose imports are all supported and whose one POST
\* function has the body `const body = SCHEMA.parse(await req.json())`, with
\* SCHEMA bound by no import and by a `const SCHEMA = ...` statement of the
\* file, findBodyType returns the local definition named SCHEMA whose text
\* is the source text of that const statement.
C16_SchemaResolvesToConstStatement ==
  \A schema \in {"T", "U"} :
    (/\ Terminal
     /\ ~HasUnsupportedImport(file)
     /\ Cardinality({n \in NodesOf(file) : n.kind = "function" /\ n.name = "POST"}) = 1
     /\ functionNode # NoNode
     /\ functionNode.hasBody
     /\ Len(functionNode.body) = 1
     /\ IsSchemaParse(functionNode.body[1], schema)
     /\ ~ImportBinds(file, schema)
     /\ ConstStatements(file, schema) # {}) =>
      \E n \in ConstStatements(file, schema) :
        result = LocalDefinition(schema, NodeText(n))

\* the last import declaration of the file, in document order, whose clause
\* binds the name
LastBinder(sourceFile, name) ==
  LET nodes == Preorder(sourceFile)
      hits == {i \in 1 .. Len(nodes) :
                 /\ nodes[i].kind = "import"
                 /\ name \in DefaultNames(nodes[i]) \cup NamedNames(nodes[i])}
  IN nodes[CHOOSE i \in hits : \A j \in hits : j <= i]

\* C20: once the imports of the file are indexed without error, every key of
\* the import map is a name some import clause of the file binds, and maps
\* to the module path of the last import declaration that binds it.
C20_MapHoldsLastBinding ==
  (pc # "Start" /\ error = <<>>) =>
    \A key \in DOMAIN importMap :
      /\ ImportBinds(file, key)
      /\ importMap[key] = LastBinder(file, key).path

(***************************************************************************)
(* Specification of one matcher on one declaration                         *)
(***************************************************************************)
\* the deepest nesting of parentheses around an initializer's operand
MaxParens == 2

RECURSIVE Parens(_, _)
Parens(e, depth) == IF depth = 0 THEN e ELSE Paren(Parens(e, depth - 1))

\* what may stand under parentheses, or under an `as`
Operands ==
  {Parens(e, depth) :
     e \in {JsonAwait, TextAwait, Call(Prop(Id("req"), "json"), <<>>)},
     depth \in 0 .. MaxParens}

WrittenTypes == {TypeRef("T"), GenericTypeRef("T", "U"), TypeLiteral}

Initializers ==
  Operands
    \cup {As(e, t) : e \in Operands, t \in WrittenTypes}
    \cup {Call(Prop(Id("T"), "parse"), <<JsonAwait>>), Id("data")}

MatchDeclarations ==
  {Decl("body", t, i) : t \in {NoType} \cup WrittenTypes, i \in Initializers}

InitMatch ==
  /\ HelperState
  /\ importMap = EmptyMap
  /\ call \in {[op |-> "matches", matcher |-> patternMatchers[m], declaration |-> d] :
                 m \in 1 .. Len(patternMatchers), d \in MatchDeclarations}
  /\ ret = NoCall

\* matcher.matches(declaration, sourceFile), then
\* matcher.extractTypeName(declaration, sourceFile)
MatchDeclaration ==
  /\ call.op = "matches"
  /\ ret = NoCall
  /\ ret' = [matches |-> matches(call.matcher, call.declaration),
             typeName |-> extractTypeName(call.matcher, call.declaration)]
  /\ UNCHANGED <<importMap, call>>
  /\ HelperUnchanged

NextMatch == MatchDeclaration

SpecMatch == InitMatch /\ [][NextMatch]_vars

AskedTypeAssertion ==
  call.op = "matches" /\ call.matcher = "type-assertion" /\ ret # NoCall

\* `await EXPR.json() as TYPE` or `(await EXPR.json()) as TYPE`
IsJsonAssertion(init) ==
  /\ init.k = "as"
  /\ \/ isBareAwaitJsonExpression(init.expr)
     \/ init.expr.k = "paren" /\ isBareAwaitJsonExpression(init.expr.expr)

\* C17: TypeAssertionMatcher matches an initializer of the form
\* `await EXPR.json() as TYPE` and of the form `(await EXPR.json()) as TYPE`;
\* it yields the type's name when TYPE is a named type reference, and no name
\* when TYPE is an inline object type; and it never yields a name for
\* anything but an assertion to a named type reference.
C17_AssertionFormsAndNamedTypeOnly ==
  AskedTypeAssertion =>
    LET init == call.declaration.init IN
    /\ IsJsonAssertion(init) =>
         /\ ret.matches
         /\ init.type.k = "ref" => ret.typeName = init.type.name
         /\ init.type.k = "literal" => ret.typeName = ""
    /\ ret.typeName # "" => init.k = "as" /\ init.type.k = "ref"

C17_Witness ==
  /\ AskedTypeAssertion
  /\ call.declaration.init.k = "as"
  /\ call.declaration.init.expr = Paren(JsonAwait)
  /\ call.declaration.init.type = TypeLiteral
  /\ ret.matches
  /\ ret.typeName = ""

(***************************************************************************)
(* More properties of the local definition search                          *)
(***************************************************************************)
SearchedLocally == call.op = "findAnyLocalTypeDefinition" /\ ret # NoCall

\* C18: findAnyLocalTypeDefinition returns what findLocalTypeDefinition
\* returns for the same file and name: when the extractor pass finds nothing,
\* the type-alias pass and the interface pass find nothing either.
C18_SecondaryPassesAddNothing ==
  SearchedLocally =>
    /\ ret.definition = findLocalTypeDefinition(call.sourceFile, call.typeName)
    /\ findLocalTypeDefinition(call.sourceFile, call.typeName) = <<>> =>
         /\ findLocalTypeAlias(call.sourceFile, call.typeName) = <<>>
         /\ findLocalInterface(call.sourceFile, call.typeName) = <<>>

C18_Witness ==
  /\ SearchedLocally
  /\ call.typeName = "T"
  /\ ret.definition = <<>>
  /\ \E n \in NodesOf(call.sourceFile) :
       n.kind = "var" /\ Len(n.decls) = 2 /\ n.decls[2].name = "T"

\* C19: the definition text findAnyLocalTypeDefinition returns is a
\* contiguous part of the file's source text, and contains the whole text of
\* the declaration it was taken from.
C19_TextIsPartOfSource ==
  Found =>
    /\ Includes(NodeFullTexts(call.sourceFile.statements), ret.definition)
    /\ Includes(ret.definition,
                NodeText(FirstDeclaration(call.sourceFile, call.typeName)))

C19_Witness ==
  /\ Found
  /\ FirstDeclaration(call.sourceFile, call.typeName).kind = "interface"
  /\ FirstDeclaration(call.sourceFile, call.typeName).doc
  /\ call.sourceFile.statements[1].kind = "module"
  /\ Len(ret.definition) < Len(NodeFullTexts(call.sourceFile.statements))

(***************************************************************************)
(* More properties of collectImportStatements                              *)
(***************************************************************************)
\* the elements `B as C` of a named-imports clause
AliasedElements(n) ==
  IF n.kind = "import" /\ n.hasClause /\ n.bindings = "named"
  THEN {n.elements[i] : i \in {j \in 1 .. Len(n.elements) : n.elements[j].propertyName # ""}}
  ELSE {}

\* C21: after collectImportStatements on an import with a named element
\* `B as C`, the local alias C is a key of the import map, mapped to the
\* module path, and the call has added no key for the exported name B.
C21_AliasIsTheKey ==
  Collected =>
    \A el \in AliasedElements(call.node) :
      /\ MapHas(importMap, el.name)
      /\ importMap[el.name] = call.node.path
      /\ MapHas(importMap, el.propertyName) => MapHas(call.importMap, el.propertyName)

C21_Witness ==
  /\ Collected
  /\ AliasedElements(call.node) # {}
  /\ MapHas(call.importMap, "C")
  /\ call.importMap["C"] = "m1"
  /\ importMap["C"] = "m2"
  /\ ~MapHas(importMap, "B")

\* the names the import declaration's clause binds; none for another node
BoundNames(n) ==
  IF n.kind = "import" THEN DefaultNames(n) \cup NamedNames(n) ELSE {}

\* C22: collectImportStatements changes the entries of the names the given
\* import declaration binds and no other: every other key is in the map
\* after the call exactly if it was before, with the same value; and a call
\* on a node that is no import declaration leaves the map as it was.
C22_OtherEntriesKept ==
  Collected =>
    /\ \A key \in (DOMAIN importMap \cup DOMAIN call.importMap) \ BoundNames(call.node) :
         /\ MapHas(importMap, key)
         /\ MapHas(call.importMap, key)
         /\ importMap[key] = call.importMap[key]
    /\ call.node.kind # "import" => importMap = call.importMap /\ ~ret.threw

C22_Witness ==
  /\ Collected
  /\ call.node.kind = "import"
  /\ importMap # call.importMap
  /\ \E key \in DOMAIN call.importMap : key \notin BoundNames(call.node)

\* the interfaces and type aliases of the name inside the namespaces that
\* are statements of the file
NestedDeclarations(sourceFile, name) ==
  {n \in UNION {{m.body[i] : i \in 1 .. Len(m.body)} :
                  m \in {sourceFile.statements[j] :
                           j \in {x \in 1 .. Len(sourceFile.statements) :
                                    sourceFile.statements[x].kind = "module"}}} :
     n.kind \in {"interface", "typealias"} /\ n.name = name}

\* a statement of the file itself declares the name
DeclaredAtTopLevel(sourceFile, name) ==
  \E i \in 1 .. Len(sourceFile.statements) :
    LET n == sourceFile.statements[i] IN
      \/ n.kind \in {"interface", "typealias"} /\ n.name = name
      \/ n.kind = "var" /\ n.decls[1].name = name

\* C23: for a file that declares the name only inside a namespace, as an
\* interface or a type alias, findAnyLocalTypeDefinition asked for the simple
\* name returns the text of such a nested declaration.
C23_NestedDeclarationFound ==
  (/\ SearchedLocally
   /\ NestedDeclarations(call.sourceFile, call.typeName) # {}
   /\ ~DeclaredAtTopLevel(call.sourceFile, call.typeName)) =>
    \E n \in NestedDeclarations(call.sourceFile, call.typeName) :
      /\ Includes(ret.definition, NodeText(n))
      /\ Includes(NodeFullText(n), ret.definition)

C23_Witness ==
  /\ SearchedLocally
  /\ ~DeclaredAtTopLevel(call.sourceFile, call.typeName)
  /\ \E n \in NestedDeclarations(call.sourceFile, call.typeName) :
       n.kind = "typealias" /\ Includes(ret.definition, NodeText(n))
  /\ Len(call.sourceFile.statements) = 2

(***************************************************************************)
(* findFunction called directly, on files with nested functions            *)
(***************************************************************************)
MaxFunctions == 2

\* the statements of the files searched for a function
LocateNodes ==
  { FunctionNode("POST", TRUE, <<Statement(Decl("body", TypeRef("T"), JsonAwait))>>),
    FunctionNode("GET", TRUE, <<Statement(Decl("body", TypeRef("U"), JsonAwait))>>),
    FunctionNode("helper", TRUE,
      <<FunctionNode("POST", TRUE, <<Statement(Decl("inner", TypeRef("U"), JsonAwait))>>)>>),
    ModuleNode("NS",
      <<FunctionNode("POST", TRUE, <<Statement(Decl("nested", TypeRef("U"), JsonAwait))>>)>>),
    ModuleNode("NS", <<FunctionNode("GET", FALSE, <<>>)>>),
    InterfaceNode("T", FALSE, TRUE) }

LocateFiles == {SourceFile(q) : q \in SeqsUpTo(LocateNodes, MaxFunctions)}

InitLocate ==
  /\ HelperState
  /\ importMap = EmptyMap
  /\ call \in {[op |-> "findFunction", sourceFile |-> f, functionName |-> n] :
                 f \in LocateFiles, n \in {"POST", "GET"}}
  /\ ret = NoCall

\* findFunction(sourceFile, functionName)
FindFunction ==
  /\ call.op = "findFunction"
  /\ ret = NoCall
  /\ ret' = [node |-> findFunction(call.sourceFile, call.functionName)]
  /\ UNCHANGED <<importMap, call>>
  /\ HelperUnchanged

NextLocate == FindFunction

SpecLocate == InitLocate /\ [][NextLocate]_vars

\* the function declarations of the name among the statements of the file
TopLevelFunctions(sourceFile, name) ==
  {sourceFile.statements[i] :
     i \in {j \in 1 .. Len(sourceFile.statements) :
              /\ sourceFile.statements[j].kind = "function"
              /\ sourceFile.statements[j].name = name}}

\* C24: findFunction returns a function declaration only if it is a
\* statement of the file itself: what it returns is one of the file's
\* top-level functions of the name, and nothing when there is none.
C24_OnlyTopLevelFunctions ==
  (call.op = "findFunction" /\ ret # NoCall) =>
    IF TopLevelFunctions(call.sourceFile, call.functionName) = {}
    THEN ret.node = NoNode
    ELSE ret.node \in TopLevelFunctions(call.sourceFile, call.functionName)

(***************************************************************************)
(* More properties of the body scan                                        *)
(***************************************************************************)
Scanned == call.op = "searchFunctionBodyType" /\ ret # NoCall

\* C25: during a body scan, every call of a matcher's extractTypeName on a
\* declaration comes straight after a call of the same matcher's matches on
\* the same declaration that returned true.
C25_ExtractOnlyAfterMatch ==
  Scanned =>
    \A k \in 1 .. Len(ret.calls) :
      ret.calls[k].method = "extractTypeName" =>
        /\ k > 1
        /\ ret.calls[k - 1].method = "matches"
        /\ ret.calls[k - 1].matcher = ret.calls[k].matcher
        /\ ret.calls[k - 1].declaration = ret.calls[k].declaration
        /\ ret.calls[k - 1].matched

\* a matcher matched and yielded no name, and a matcher rejected a
\* declaration, in one scan
C25_Witness ==
  /\ Scanned
  /\ \E k \in 1 .. Len(ret.calls) :
       ret.calls[k].method = "extractTypeName" /\ ret.calls[k].typeName = ""
  /\ \E k \in 1 .. Len(ret.calls) :
       ret.calls[k].method = "matches" /\ ~ret.calls[k].matched
  /\ ret.name # ""

(***************************************************************************)
(* findBodyType run to its end: a call, once begun, is not abandoned       *)
(***************************************************************************)
\* the longest route file of the runs followed to their end
MaxRunStatements == 2

InitLive == Init /\ Len(file.statements) <= MaxRunStatements

SpecLive == InitLive /\ [][Next]_vars /\ WF_vars(Next)

\* the place of a stage in the order of the stages
StageRank(stage) ==
  IF stage = "Start" THEN 0
  ELSE IF stage = "ImportsIndexed" THEN 1
  ELSE IF stage = "FunctionLocated" THEN 2
  ELSE IF stage = "TypeNameExtracted" THEN 3
  ELSE 4

\* C26: every run of findBodyType reaches a terminal stage; the stage only
\* moves forward in the order Start, ImportsIndexed, FunctionLocated,
\* TypeNameExtracted, terminal; and at the terminal stage the call has one
\* outcome, a result (Resolved) or absence (NotFound), with no exception
\* leaving the call, and that outcome never changes.
C26_OneOutcomeInStageOrder ==
  /\ <>Terminal
  /\ [][/\ StageRank(pc') > StageRank(pc)
        /\ ~Terminal]_vars
  /\ [](Terminal => /\ (pc = "Resolved") = (result # Absent)
                    /\ ~escaped)

\* a run that went through every stage and ended in absence
C26_Witness ==
  /\ pc = "NotFound"
  /\ functionNode # NoNode
  /\ bodyTypeName # ""
  /\ result = Absent
  /\ ~escaped

\* C27: if some variable statement of the function body yields a type
\* name, the name returned for the function is not empty.
C27_YieldedNameIsKept ==
  (Scanned /\ YieldingStatements(call.functionNode) # {}) => ret.name # ""

\* the expression holds an awaited call that ends in .json()
RECURSIVE ReadsJsonBody(_)
RECURSIVE AnyReadsJsonBody(_)
ReadsJsonBody(e) ==
  IF e.k = "await" THEN EndsWith(ExprText(e.expr), JsonCallSuffix)
  ELSE IF e.k \in {"paren", "as"} THEN ReadsJsonBody(e.expr)
  ELSE IF e.k = "call" THEN AnyReadsJsonBody(e.args)
  ELSE FALSE
AnyReadsJsonBody(es) ==
  IF es = <<>> THEN FALSE
  ELSE ReadsJsonBody(Head(es)) \/ AnyReadsJsonBody(Tail(es))

\* the variable statements of the function whose first declarator is
\* initialized from an awaited .json() call, as positions in statement order
BodyReadingStatements(f) ==
  {i \in 1 .. Len(PreorderEach(Children(f))) :
     /\ PreorderEach(Children(f))[i].kind = "var"
     /\ ReadsJsonBody(PreorderEach(Children(f))[i].decls[1].init)}

\* C28: a type name returned by the body scan comes from a function that
\* has a declaration initialized from an awaited .json() call; a body
\* whose only declaration is a .parse(...) of something else returns none.
C28_NameOnlyFromJsonBody ==
  (Scanned /\ ret.name # "") => BodyReadingStatements(call.functionNode) # {}

(***************************************************************************)
(* The matchers taken together                                             *)
(***************************************************************************)
\* the matchers that accept the declaration
MatchersOf(declaration) ==
  {m \in 1 .. Len(patternMatchers) : matches(patternMatchers[m], declaration)}

\* every order the three matchers can be listed in
MatcherOrders ==
  {<<patternMatchers[p[1]], patternMatchers[p[2]], patternMatchers[p[3]]>> :
     p \in {q \in (1 .. 3) \X (1 .. 3) \X (1 .. 3) :
              q[1] # q[2] /\ q[1] # q[3] /\ q[2] # q[3]}}

AskedMatcher == call.op = "matches" /\ ret # NoCall

\* C29: at most one of the three matchers accepts a declaration, and the
\* name the matcher list gives for the declaration is the same in every
\* order of the list.
C29_AtMostOneMatcher ==
  AskedMatcher =>
    /\ Cardinality(MatchersOf(call.declaration)) <= 1
    /\ ret.matches => MatchersOf(call.declaration) =
                        {m \in 1 .. Len(patternMatchers) :
                           patternMatchers[m] = call.matcher}
    /\ \A o \in MatcherOrders :
         tryMatchers(o, call.declaration, NoScan).name =
           tryMatchers(patternMatchers, call.declaration, NoScan).name

\* a type assertion over an awaited .json() call was accepted by its matcher
C29_Witness ==
  /\ AskedMatcher
  /\ call.matcher = "type-assertion"
  /\ call.declaration.init.k = "as"
  /\ ret.matches
  /\ ret.typeName # ""

(***************************************************************************)
(* Variable statements with several declarators                            *)
(***************************************************************************)
\* the variable statements of the function, in statement order
VariableStatements(f) ==
  {i \in 1 .. Len(PreorderEach(Children(f))) :
     PreorderEach(Children(f))[i].kind = "var"}

\* the first declarator of every variable statement of the function
FirstDeclarators(f) ==
  {PreorderEach(Children(f))[i].decls[1] : i \in VariableStatements(f)}

\* the names the variable statement declares
DeclaredNames(n) == {n.decls[i].name : i \in 1 .. Len(n.decls)}

\* C30: every declaration the body scan hands to a matcher is the first
\* declarator of a variable statement, and VariableDeclarationExtractor
\* can handle a variable statement for the name of its first declarator
\* only.
C30_FirstDeclaratorOnly ==
  Scanned =>
    /\ \A i \in 1 .. Len(ret.calls) :
         ret.calls[i].declaration \in FirstDeclarators(call.functionNode)
    /\ \A i \in VariableStatements(call.functionNode) :
         \A name \in DeclaredNames(PreorderEach(Children(call.functionNode))[i]) :
           canHandle("VariableDeclarationExtractor",
                     PreorderEach(Children(call.functionNode))[i], name)
             = (name = PreorderEach(Children(call.functionNode))[i].decls[1].name)

\* a statement with two declarators was scanned, its second declarator is
\* one a matcher would name, and the scan found no name
C30_Witness ==
  /\ Scanned
  /\ ret.calls # <<>>
  /\ ret.name = ""
  /\ \E i \in VariableStatements(call.functionNode) :
       LET n == PreorderEach(Children(call.functionNode))[i] IN
         /\ Len(n.decls) > 1
         /\ tryMatchers(patternMatchers, n.decls[2], NoScan).name # ""

====
